---- MODULE Spec2Model ----
(***************************************************************************)
(* A model of the geospatial core of the maritime-warning monitor          *)
(* (src/n8n_msa_monitor.py): coordinate extraction and validation,         *)
(* coordinate clustering, geofence threat detection and vessel risk        *)
(* scoring.                                                                *)
(*                                                                         *)
(* Numbers.  The program computes in binary floating point; the model      *)
(* computes in integers with a fixed scale per quantity:                   *)
(*   - captured degrees, minutes and seconds: hundredths (23.50 -> 2350);  *)
(*   - latitudes and longitudes of the extractor: micro-degrees, the       *)
(*     precision _convert_to_decimal rounds to (round(decimal, 6));        *)
(*   - positions of the clustering and geofence parts: offsets north and   *)
(*     east of a reference point on the equator, in grid units; on the     *)
(*     scales used (tens of km) the great-circle distance agrees with the  *)
(*     planar distance of the offsets, which haversine_distance returns    *)
(*     rounded down to a whole unit;                                       *)
(*   - certainties: hundredths (0.95 -> 95); scores: hundredths of a       *)
(*     point, the precision the program reports (round(final_score, 2)).   *)
(***************************************************************************)
EXTENDS Integers, Sequences, FiniteSets, TLC

VARIABLES
    \* --- CoordinateExtractor
    text,            \* the bulletin text: a sequence of coordinate phrases
    coordinates,     \* what extract_coordinates(text) returned
    vpoint,          \* the last point handed to _validate_coordinate
    vresult,         \* what _validate_coordinate returned for it
    \* --- CoordinateValidatorExtended.cluster_nearby_coordinates
    points,          \* the coordinates argument of the first call
    threshold_km,    \* the threshold_km argument of both calls
    centroids,       \* result of cluster_nearby_coordinates(points, t)
    recentroids,     \* result of cluster_nearby_coordinates(centroids, t)
    \* --- GeofenceDetector.detect_zone_threat
    warning,         \* the warning_data argument
    buffer_km,       \* the buffer_km argument
    vessel_pos,      \* (vessel_lat, vessel_lon)
    threat,          \* the returned record
    prev_threat,     \* the record returned by the call before, same warning
    \* --- VesselRiskAssessment.assess_vessel_threat
    vessel_data,     \* the vessel_data argument
    warnings_data,   \* the warnings_data argument
    assessment,      \* the returned record
    \* --- VesselRiskAssessment.assess_fleet_status (with warnings_data)
    fleet_data,      \* the fleet_data argument
    fleet_assessment, \* the returned record
    \* --- the while loop of cluster_nearby_coordinates, pass by pass (with
    \*     points, threshold_km and centroids)
    loop_clusters,   \* the local variable clusters
    loop_changed,    \* the local variable changed
    passes,          \* how many times the loop body has run
    pc,              \* "start", "while" or "done"
    \* --- DatabaseManager: the warnings table
    table,           \* the rows of the table, in id order
    db_call,         \* the last call: its name and arguments
    db_before,       \* the table before the last call
    db_result,       \* what the last call returned
    \* --- MSANavigationWarningsScraper: one process per run
    send_mode,       \* 'batch' or 'individual'
    listing,         \* the items of the site still to be handled in this run
    new_warnings,    \* self.new_warnings
    run_pc,          \* "idle", "scraping", "batch" or "failed"
    runs,            \* how many runs have started
    requests_log,    \* the notifier calls of this run, in order
    accepted_ids,    \* the ids of the warnings in a request the webhook accepted
    due,             \* the ids stored unnotified before this run and listed in it
    \* --- KeywordManager
    keywords,        \* self.keywords
    keyword_categories, \* self.keyword_categories
    kw_call,         \* the last call: its name and arguments
    kw_result        \* what the last call returned

coordVars   == <<text, coordinates, vpoint, vresult>>
clusterVars == <<points, threshold_km, centroids, recentroids>>
zoneVars    == <<warning, buffer_km, vessel_pos, threat, prev_threat>>
riskVars    == <<vessel_data, warnings_data, assessment>>
fleetVars   == <<fleet_data, fleet_assessment>>
loopVars    == <<loop_clusters, loop_changed, passes, pc>>
storeVars   == <<table, db_call, db_before, db_result>>
scraperVars == <<send_mode, listing, new_warnings, run_pc, runs, requests_log,
                 accepted_ids, due>>
keywordVars == <<keywords, keyword_categories, kw_call, kw_result>>
serviceVars == <<storeVars, scraperVars, keywordVars>>
vars        == <<coordVars, clusterVars, zoneVars, riskVars, fleetVars, loopVars,
                 serviceVars>>

\* A variable that holds "no result yet" or a result holds <<>> or <<result>>.
NoResult == <<>>
Some(x) == <<x>>
INF == 100000000            \* float('inf'): above every distance of the model

----------------------------------------------------------------------------
(* Arithmetic helpers                                                      *)

Abs(x) == IF x < 0 THEN -x ELSE x
Min(a, b) == IF a < b THEN a ELSE b
Max(a, b) == IF a > b THEN a ELSE b

\* round(n / d) for n >= 0, d > 0
RoundDiv(n, d) == (2 * n + d) \div (2 * d)

RECURSIVE SqrtBits(_, _, _)
\* the largest r with r*r <= n, found bit by bit from 2^k down
SqrtBits(n, r, b) ==
    IF b = 0 THEN r
    ELSE IF (r + b) * (r + b) <= n THEN SqrtBits(n, r + b, b \div 2)
         ELSE SqrtBits(n, r, b \div 2)

ISqrt(n) == SqrtBits(n, 0, 16384)

RECURSIVE SumSeq(_)
SumSeq(s) == IF s = <<>> THEN 0 ELSE Head(s) + SumSeq(Tail(s))

RECURSIVE FlattenSeq(_)
FlattenSeq(ss) == IF ss = <<>> THEN <<>> ELSE Head(ss) \o FlattenSeq(Tail(ss))

SeqContains(s, x) == \E i \in 1..Len(s) : s[i] = x

----------------------------------------------------------------------------
(* CoordinateExtractor                                                     *)

MaxPhrases == 2

\* One captured coordinate pair: degrees, minutes, seconds in hundredths.
Capture(latd, latm, lats, latdir, lond, lonm, lons, londir) ==
    [lat_deg |-> latd, lat_min |-> latm, lat_sec |-> lats, lat_dir |-> latdir,
     lon_deg |-> lond, lon_min |-> lonm, lon_sec |-> lons, lon_dir |-> londir]

\* The coordinate phrases a bulletin text is made of in the model, joined by
\* "; ".  For each the tables below give what findall returns for each of the
\* five compiled patterns (evaluated with the patterns of the source).
\*   dm_decimal       35-23.50N 119-35.92E
\*   dm_decimal_e2e   18-17.37N 109-22.17E
\*   dm_decimal_S     35-23.50S 119-35.92E
\*   dm_decimal_180W  95-00.00N 180-00.00W
\*   dm_decimal_30E   25-30.00N 30-00.00E
\*   dms              25d30'15"N 121d20'30"E      (d: the degree sign)
\*   dm               25d30'N 121d20'E
\*   decimal          25.5N 121.3E
\*   chinese_NE       north-latitude 25 du 30 fen, east-longitude 121 du 20 fen
\*   chinese_SE       south-latitude 25 du 30 fen, east-longitude 121 du 20 fen
\*   chinese_NW       north-latitude 25 du 30 fen, west-longitude 121 du 20 fen
Phrases == {"dm_decimal", "dm_decimal_e2e", "dm_decimal_S", "dm_decimal_180W",
            "dm_decimal_30E", "dms", "dm", "decimal",
            "chinese_NE", "chinese_SE", "chinese_NW"}

\* The hemisphere markers written in a phrase (N/S/E/W, or the Chinese
\* characters for north/south/east/west, written zh_N, zh_S, zh_E, zh_W).
PhraseLatMarker(p) ==
    CASE p = "dm_decimal_S" -> "S"
      [] p = "chinese_NE"   -> "zh_N"
      [] p = "chinese_SE"   -> "zh_S"
      [] p = "chinese_NW"   -> "zh_N"
      [] OTHER              -> "N"

PhraseLonMarker(p) ==
    CASE p = "dm_decimal_180W" -> "W"
      [] p = "chinese_NE"      -> "zh_E"
      [] p = "chinese_SE"      -> "zh_E"
      [] p = "chinese_NW"      -> "zh_W"
      [] OTHER                 -> "E"

\* pattern_dm_decimal.findall on one phrase
pattern_dm_decimal(p) ==
    CASE p = "dm_decimal"      -> <<Capture(3500, 2350, 0, "N", 11900, 3592, 0, "E")>>
      [] p = "dm_decimal_e2e"  -> <<Capture(1800, 1737, 0, "N", 10900, 2217, 0, "E")>>
      [] p = "dm_decimal_S"    -> <<Capture(3500, 2350, 0, "S", 11900, 3592, 0, "E")>>
      [] p = "dm_decimal_180W" -> <<Capture(9500, 0, 0, "N", 18000, 0, 0, "W")>>
      [] p = "dm_decimal_30E"  -> <<Capture(2500, 3000, 0, "N", 3000, 0, 0, "E")>>
      [] p = "dm"              -> <<Capture(2500, 3000, 0, "N", 12100, 2000, 0, "E")>>
      [] p = "decimal"         -> <<Capture(200, 550, 0, "N", 1200, 130, 0, "E")>>
      [] OTHER                 -> <<>>

\* pattern_dms.findall on one phrase
pattern_dms(p) ==
    CASE p = "dms" -> <<Capture(2500, 3000, 1500, "N", 12100, 2000, 3000, "E")>>
      [] OTHER     -> <<>>

\* pattern_dm.findall on one phrase
pattern_dm(p) ==
    CASE p = "dm" -> <<Capture(2500, 3000, 0, "N", 12100, 2000, 0, "E")>>
      [] OTHER    -> <<>>

\* pattern_decimal.findall on one phrase
pattern_decimal(p) ==
    CASE p = "decimal" -> <<Capture(2550, 0, 0, "N", 12130, 0, 0, "E")>>
      [] OTHER         -> <<>>

\* pattern_chinese.findall on one phrase: the hemisphere characters are
\* matched by [..] classes outside the groups, so they are not captured;
\* extract_coordinates passes 'N' and 'E' to the conversion.
pattern_chinese(p) ==
    CASE p \in {"chinese_NE", "chinese_SE", "chinese_NW"}
                -> <<Capture(2500, 3000, 0, "N", 12100, 2000, 0, "E")>>
      [] OTHER  -> <<>>

\* findall of pattern g (1..5) on a whole text
RECURSIVE FindAll(_, _)
FindAll(g, t) ==
    IF t = <<>> THEN <<>>
    ELSE (CASE g = 1 -> pattern_dm_decimal(Head(t))
            [] g = 2 -> pattern_dms(Head(t))
            [] g = 3 -> pattern_dm(Head(t))
            [] g = 4 -> pattern_decimal(Head(t))
            [] g = 5 -> pattern_chinese(Head(t)))
         \o FindAll(g, Tail(t))

\* (variant: the minutes taken as a decimal fraction of a degree)
convert_minutes_as_fraction(degrees, minutes, seconds, direction) ==
    LET decimal == degrees * 10000 + minutes * 100
    IN  IF direction \in {"S", "W"} THEN -decimal ELSE decimal

\* _convert_to_decimal: deg + min/60 + sec/3600, negated for S and W,
\* rounded to 6 decimals; arguments in hundredths, result in micro-degrees.
convert_to_decimal(degrees, minutes, seconds, direction) ==
    LET decimal == degrees * 10000 + RoundDiv((minutes * 60 + seconds) * 25, 9)
    IN  IF direction \in {"S", "W"} THEN -decimal ELSE decimal

\* (variant: the world range and the near-(0,0) test, with no regional box)
ValidateNoBox(lat, lon) ==
    /\ -90000000 <= lat /\ lat <= 90000000
    /\ -180000000 <= lon /\ lon <= 180000000
    /\ ~(Abs(lat) < 10000 /\ Abs(lon) < 10000)

\* _validate_coordinate, on micro-degrees
validate_coordinate(lat, lon) ==
    \/ -60000000 <= lat /\ lat <= 60000000
       /\ 60000000 <= lon /\ lon <= 180000000
    \/ /\ -180000000 <= lon /\ lon < 0
       /\ 60000000 <= 360000000 + lon /\ 360000000 + lon <= 180000000

\* (variant: without "if coord not in coordinates")
RECURSIVE AppendMatchesKeepDuplicates(_, _)
AppendMatchesKeepDuplicates(acc, matches) ==
    IF matches = <<>> THEN acc
    ELSE LET m   == Head(matches)
             lat == convert_to_decimal(m.lat_deg, m.lat_min, m.lat_sec, m.lat_dir)
             lon == convert_to_decimal(m.lon_deg, m.lon_min, m.lon_sec, m.lon_dir)
         IN  AppendMatchesKeepDuplicates(
                 IF validate_coordinate(lat, lon)
                     THEN Append(acc, <<lat, lon>>) ELSE acc,
                 Tail(matches))

\* The body of one "for match in matches" loop of extract_coordinates.
RECURSIVE AppendMatches(_, _)
AppendMatches(acc, matches) ==
    IF matches = <<>> THEN acc
    ELSE LET m   == Head(matches)
             lat == convert_to_decimal(m.lat_deg, m.lat_min, m.lat_sec, m.lat_dir)
             lon == convert_to_decimal(m.lon_deg, m.lon_min, m.lon_sec, m.lon_dir)
             coord == <<lat, lon>>
         IN  AppendMatches(
                 IF validate_coordinate(lat, lon) /\ ~SeqContains(acc, coord)
                     THEN Append(acc, coord) ELSE acc,
                 Tail(matches))

RECURSIVE ExtractFrom(_, _, _)
ExtractFrom(acc, g, t) ==
    IF g > 5 THEN acc
    ELSE ExtractFrom(AppendMatches(acc, FindAll(g, t)), g + 1, t)

extract_coordinates(t) == IF t = <<>> THEN <<>> ELSE ExtractFrom(<<>>, 1, t)

Texts == UNION {[1..n -> Phrases] : n \in 0..MaxPhrases}

\* Latitudes and longitudes handed to the validator (micro-degrees): the
\* limits of the ranges the code and the specification name, and the
\* example points of the specification.
ValidatorLats == {-95000000, -90000000, -60000001, -60000000, -25000000,
                  -5000, 0, 5000, 25123400, 60000000, 60000001,
                  90000000, 91000000, 95000000}
ValidatorLons == {-181000000, -180000000, -179999999, -121000000, -5000, 0,
                  5000, 30000000, 59999999, 60000000, 121567800,
                  180000000, 180000001, 181000000}

\* A run is one call: extract_coordinates on a text, or _validate_coordinate
\* on a point.
InitCoord ==
    /\ coordinates = NoResult
    /\ vresult = NoResult
    /\ \/ text \in Texts /\ vpoint = NoResult
       \/ text = <<>> /\ vpoint \in ValidatorLats \X ValidatorLons

ExtractCoordinates ==
    /\ vpoint = NoResult
    /\ coordinates = NoResult
    /\ coordinates' = Some(extract_coordinates(text))
    /\ UNCHANGED <<text, vpoint, vresult, clusterVars, zoneVars, riskVars,
                 fleetVars, loopVars,
                 serviceVars>>

ValidateCoordinate ==
    /\ vpoint # NoResult
    /\ vresult = NoResult
    /\ vresult' = Some(validate_coordinate(vpoint[1], vpoint[2]))
    /\ UNCHANGED <<text, coordinates, vpoint, clusterVars, zoneVars, riskVars,
                 fleetVars, loopVars,
                 serviceVars>>

NextCoord == ExtractCoordinates \/ ValidateCoordinate

----------------------------------------------------------------------------
(* CoordinateValidatorExtended                                             *)

MaxPoints == 3

RECURSIVE Factorial(_)
Factorial(n) == IF n <= 1 THEN 1 ELSE n * Factorial(n - 1)

\* Input points lie on multiples of PointStep grid units: 9 * 2^k units, so
\* that every grid coordinate (a small multiple of it) is a floating-point
\* number of the model.
PointStep == Factorial(MaxPoints) * Factorial(MaxPoints)

\* Floating-point numbers of the model: whole numbers of units with
\* FloatBits significant bits.  A sum or a quotient is rounded to the
\* nearest such number, ties to even, as every float operation of the
\* program is rounded to the nearest double.
FloatBits == 7

RECURSIVE FloatQuantum(_, _)
FloatQuantum(x, q) == IF x < q * (2 ^ FloatBits) THEN q ELSE FloatQuantum(x, 2 * q)

RoundHalfEven(num, den) ==
    LET f == num \div den
        r == num % den
    IN  IF 2 * r < den THEN f
        ELSE IF 2 * r > den THEN f + 1
        ELSE IF f % 2 = 0 THEN f ELSE f + 1

FloatNearest(n, den, q) ==
    IF n < 0 THEN -(RoundHalfEven(-n, den * q) * q) ELSE RoundHalfEven(n, den * q) * q

\* the float nearest to num / den (den > 0); n is the value of num and q
\* the quantum of the quotient
FloatOf(num, den) ==
    CHOOSE m \in UNION {{FloatNearest(n, den, q) :
                            q \in {FloatQuantum(Abs(n) \div den, 1)}} :
                        n \in {num}} : TRUE

\* sum(...): the terms are added to 0 from left to right, each addition
\* rounded
RECURSIVE FloatSum(_, _)
FloatSum(s, acc) ==
    IF s = <<>> THEN acc
    ELSE CHOOSE r \in {FloatSum(Tail(s), a) : a \in {FloatOf(acc + Head(s), 1)}} : TRUE

\* (variant: dlat taken from lat2 alone, not from lat2 - lat1)
haversine_from_second_latitude(coord1, coord2) ==
    LET dlat == coord2[1]
        dlon == coord2[2] - coord1[2]
    IN  ISqrt(dlat * dlat + dlon * dlon)

\* haversine_distance: the great-circle distance of two points, in the grid
\* units of their offsets, rounded down.
haversine_distance(coord1, coord2) ==
    LET dlat == coord2[1] - coord1[1]
        dlon == coord2[2] - coord1[2]
    IN  ISqrt(dlat * dlat + dlon * dlon)

\* the "min_dist" loops: least distance between a member of merged_cluster
\* and a member of cluster (float('inf') when there is none)
ClusterMinDist(merged_cluster, cluster) ==
    LET ds == {haversine_distance(merged_cluster[a], cluster[b]) :
                   a \in 1..Len(merged_cluster), b \in 1..Len(cluster)}
    IN  IF ds = {} THEN INF ELSE CHOOSE d \in ds : \A e \in ds : d <= e

\* (variant: "<=" for "<")
MergeTestInclusive(min_dist, t) == min_dist <= t

\* "if min_dist < threshold_km"
MergeTest(min_dist, t) == min_dist < t

\* the "for j in range(i + 1, len(clusters))" loop; st carries
\* merged_cluster, used and changed
RECURSIVE ClusterInner(_, _, _, _)
ClusterInner(st, j, clusters, t) ==
    IF j > Len(clusters) THEN st
    ELSE IF st.used[j] THEN ClusterInner(st, j + 1, clusters, t)
    ELSE IF MergeTest(ClusterMinDist(st.merged_cluster, clusters[j]), t)
         THEN ClusterInner([merged_cluster |-> st.merged_cluster \o clusters[j],
                            used    |-> [st.used EXCEPT ![j] = TRUE],
                            changed |-> TRUE],
                           j + 1, clusters, t)
         ELSE ClusterInner(st, j + 1, clusters, t)

\* the "for i in range(len(clusters))" loop; st carries new_clusters, used
\* and changed (r, the result of the inner loop, and next, the state after
\* iteration i, are each bound to their value once)
RECURSIVE ClusterOuter(_, _, _, _)
ClusterOuter(st, i, clusters, t) ==
    IF i > Len(clusters) THEN st
    ELSE IF st.used[i] THEN ClusterOuter(st, i + 1, clusters, t)
    ELSE CHOOSE out \in
             {ClusterOuter(next, i + 1, clusters, t) :
                 next \in {[new_clusters |-> Append(st.new_clusters, r.merged_cluster),
                            used |-> r.used, changed |-> r.changed] :
                               r \in {ClusterInner([merged_cluster |-> clusters[i],
                                                    used |-> st.used,
                                                    changed |-> st.changed],
                                                   i + 1, clusters, t)}}} : TRUE

\* one iteration of "while changed and len(clusters) > 1"
ClusterPass(clusters, t) ==
    ClusterOuter([new_clusters |-> <<>>,
                  used |-> [k \in 1..Len(clusters) |-> FALSE],
                  changed |-> FALSE],
                 1, clusters, t)

\* (variant: one pass only, "if" for "while")
ClusterLoopOnePass(clusters, changed, t) ==
    IF changed /\ Len(clusters) > 1
        THEN ClusterPass(clusters, t).new_clusters
        ELSE clusters

\* the while loop: the clusters it ends with
RECURSIVE ClusterLoop(_, _, _)
ClusterLoop(clusters, changed, t) ==
    IF changed /\ Len(clusters) > 1
        THEN LET r == ClusterPass(clusters, t)
             IN  ClusterLoop(r.new_clusters, r.changed, t)
        ELSE clusters

\* the centroid of one cluster
Centroid(cluster) ==
    <<FloatOf(FloatSum([k \in 1..Len(cluster) |-> cluster[k][1]], 0), Len(cluster)),
      FloatOf(FloatSum([k \in 1..Len(cluster) |-> cluster[k][2]], 0), Len(cluster))>>

cluster_nearby_coordinates(coords, t) ==
    IF Len(coords) <= 1 THEN coords
    ELSE LET clusters == ClusterLoop([k \in 1..Len(coords) |-> <<coords[k]>>], TRUE, t)
         IN  [k \in 1..Len(clusters) |-> Centroid(clusters[k])]

\* Input points: offsets (north, east) on a 3 x 3 grid, in units of which a
\* threshold of 1.0 km is 12 * PointStep.
GridNorth == {0, 5 * PointStep, 10 * PointStep}
GridEast  == {0, 11 * PointStep, 12 * PointStep}
GridPoints == GridNorth \X GridEast
Thresholds == {6 * PointStep, 12 * PointStep}

PointLists == UNION {[1..n -> GridPoints] : n \in 0..MaxPoints}

InitCluster ==
    /\ points \in PointLists
    /\ threshold_km \in Thresholds
    /\ centroids = NoResult
    /\ recentroids = NoResult

\* the first call, on the extracted points
ClusterNearbyCoordinates ==
    /\ centroids = NoResult
    /\ centroids' = Some(cluster_nearby_coordinates(points, threshold_km))
    /\ UNCHANGED <<points, threshold_km, recentroids, coordVars, zoneVars, riskVars,
                 fleetVars, loopVars,
                 serviceVars>>

\* a second call, on the centroids the first returned
ClusterAgain ==
    /\ centroids # NoResult
    /\ recentroids = NoResult
    /\ recentroids' = Some(cluster_nearby_coordinates(centroids[1], threshold_km))
    /\ UNCHANGED <<points, threshold_km, centroids, coordVars, zoneVars, riskVars,
                 fleetVars, loopVars,
                 serviceVars>>

NextCluster == ClusterNearbyCoordinates \/ ClusterAgain

\* cluster_nearby_coordinates step by step: one action per pass of the
\* while loop.  pc is the position in the function: "start" at its first
\* line, "while" at the loop test, "done" after the return.
\* Inputs of the step-by-step run: the points of two columns of the grid
LoopPointLists ==
    UNION {[1..n -> GridNorth \X {0, 11 * PointStep}] : n \in 0..MaxPoints}

InitLoop ==
    /\ points \in LoopPointLists
    /\ threshold_km \in Thresholds
    /\ centroids = NoResult
    /\ recentroids = NoResult
    /\ loop_clusters = <<>>
    /\ loop_changed = FALSE
    /\ passes = 0
    /\ pc = "start"

\* "if not coordinates or len(coordinates) == 1: return coordinates"
LoopReturnEarly ==
    /\ pc = "start"
    /\ Len(points) <= 1
    /\ centroids' = Some(points)
    /\ pc' = "done"
    /\ UNCHANGED <<points, threshold_km, recentroids, loop_clusters, loop_changed,
                 passes, coordVars, zoneVars, riskVars, fleetVars,
                 serviceVars>>

\* "clusters = [[coord] for coord in coordinates]; changed = True"
LoopEnter ==
    /\ pc = "start"
    /\ Len(points) > 1
    /\ loop_clusters' = [k \in 1..Len(points) |-> <<points[k]>>]
    /\ loop_changed' = TRUE
    /\ pc' = "while"
    /\ UNCHANGED <<points, threshold_km, centroids, recentroids, passes,
                 coordVars, zoneVars, riskVars, fleetVars,
                 serviceVars>>

\* (variant: "changed = False" at the head of the pass left out)
LoopPassChangedNotReset ==
    /\ pc = "while"
    /\ loop_changed /\ Len(loop_clusters) > 1
    /\ \E r \in {ClusterPass(loop_clusters, threshold_km)} :
           /\ loop_clusters' = r.new_clusters
           /\ loop_changed' = TRUE
    /\ passes' = passes + 1
    /\ UNCHANGED <<points, threshold_km, centroids, recentroids, pc,
                 coordVars, zoneVars, riskVars, fleetVars,
                 serviceVars>>

\* one pass of "while changed and len(clusters) > 1"
LoopPass ==
    /\ pc = "while"
    /\ loop_changed /\ Len(loop_clusters) > 1
    /\ \E r \in {ClusterPass(loop_clusters, threshold_km)} :
           /\ loop_clusters' = r.new_clusters
           /\ loop_changed' = r.changed
    /\ passes' = passes + 1
    /\ UNCHANGED <<points, threshold_km, centroids, recentroids, pc,
                 coordVars, zoneVars, riskVars, fleetVars,
                 serviceVars>>

\* the loop test fails: the centroids are computed and returned
LoopExit ==
    /\ pc = "while"
    /\ ~(loop_changed /\ Len(loop_clusters) > 1)
    /\ \E cs \in {[k \in 1..Len(loop_clusters) |-> Centroid(loop_clusters[k])]} :
           centroids' = Some(cs)
    /\ pc' = "done"
    /\ UNCHANGED <<points, threshold_km, recentroids, loop_clusters, loop_changed,
                 passes, coordVars, zoneVars, riskVars, fleetVars,
                 serviceVars>>

NextLoop == LoopReturnEarly \/ LoopEnter \/ LoopPass \/ LoopExit

----------------------------------------------------------------------------
(* GeofenceDetector                                                        *)
(* Positions are offsets (north, east) in grid units of a quarter of a     *)
(* kilometre of great-circle distance: buffer_km = 5.0 is 20 units.        *)

DefaultBuffer == 20

\* One degree is 6371 * pi / 180 = 111.195 km of great-circle distance
\* (haversine_distance) and 111 km in point_to_polygon_distance.
SphereMetresPerDegree == 111195
FlatMetresPerDegree == 111000

Warning(id, type, title, coords) ==
    [id |-> id, type |-> type, title |-> title, coordinates |-> coords]

\* What the geometry library's Polygon constructor needs: at least three
\* coordinate pairs, each with a latitude and a longitude.  Otherwise the
\* construction raises inside the try block.
PolygonRaises(polygon_coords) ==
    \/ Len(polygon_coords) < 3
    \/ \E k \in 1..Len(polygon_coords) : Len(polygon_coords[k]) < 2

RingEdges(polygon_coords) ==
    [k \in 1..Len(polygon_coords) |->
        <<polygon_coords[k], polygon_coords[(k % Len(polygon_coords)) + 1]>>]

Cross(a, b, p) == (b[1] - a[1]) * (p[2] - a[2]) - (b[2] - a[2]) * (p[1] - a[1])

OnSegment(p, a, b) ==
    /\ Cross(a, b, p) = 0
    /\ Min(a[1], b[1]) <= p[1] /\ p[1] <= Max(a[1], b[1])
    /\ Min(a[2], b[2]) <= p[2] /\ p[2] <= Max(a[2], b[2])

OnBoundary(p, polygon_coords) ==
    \E k \in 1..Len(polygon_coords) :
        OnSegment(p, RingEdges(polygon_coords)[k][1], RingEdges(polygon_coords)[k][2])

\* the ray from p towards growing longitude crosses the edge a-b
RayCrosses(p, a, b) ==
    /\ (a[1] > p[1]) # (b[1] > p[1])
    /\ LET dy  == b[1] - a[1]
           lhs == (p[2] - a[2]) * dy
           rhs == (p[1] - a[1]) * (b[2] - a[2])
       IN  IF dy > 0 THEN lhs < rhs ELSE lhs > rhs

\* polygon.contains(point): the point lies in the interior of the ring
PolygonContains(p, polygon_coords) ==
    /\ ~OnBoundary(p, polygon_coords)
    /\ Cardinality({k \in 1..Len(polygon_coords) :
           RayCrosses(p, RingEdges(polygon_coords)[k][1],
                         RingEdges(polygon_coords)[k][2])}) % 2 = 1

\* squared distance from p to the segment a-b, rounded down
SegmentDist2(p, a, b) ==
    LET len2 == (b[1] - a[1]) * (b[1] - a[1]) + (b[2] - a[2]) * (b[2] - a[2])
        dot  == (p[1] - a[1]) * (b[1] - a[1]) + (p[2] - a[2]) * (b[2] - a[2])
        pa2  == (p[1] - a[1]) * (p[1] - a[1]) + (p[2] - a[2]) * (p[2] - a[2])
        pb2  == (p[1] - b[1]) * (p[1] - b[1]) + (p[2] - b[2]) * (p[2] - b[2])
    IN  IF len2 = 0 \/ dot <= 0 THEN pa2
        ELSE IF dot >= len2 THEN pb2
        ELSE (Cross(a, b, p) * Cross(a, b, p)) \div len2

\* point.distance(polygon), in grid units: 0 inside and on the ring
PolygonDistance(p, polygon_coords) ==
    IF PolygonContains(p, polygon_coords) \/ OnBoundary(p, polygon_coords) THEN 0
    ELSE LET ds == {SegmentDist2(p, RingEdges(polygon_coords)[k][1],
                                    RingEdges(polygon_coords)[k][2]) :
                        k \in 1..Len(polygon_coords)}
         IN  ISqrt(CHOOSE d \in ds : \A e \in ds : d <= e)

\* (variant: "return True" in the except branch)
is_point_in_polygon_true_on_failure(point, polygon_coords) ==
    IF PolygonRaises(polygon_coords) THEN TRUE
    ELSE PolygonContains(point, polygon_coords)

\* is_point_in_polygon: False when the geometry raises
is_point_in_polygon(point, polygon_coords) ==
    IF PolygonRaises(polygon_coords) THEN FALSE
    ELSE PolygonContains(point, polygon_coords)

\* point_to_polygon_distance: distance_degrees * 111 * cos(lat), in the grid
\* units of great-circle distance (cos(lat) is 1 to within 1e-5 on the
\* grid); float('inf') when the geometry raises
point_to_polygon_distance(point, polygon_coords) ==
    IF PolygonRaises(polygon_coords) THEN INF
    ELSE (PolygonDistance(point, polygon_coords) * FlatMetresPerDegree)
             \div SphereMetresPerDegree

\* (variant: the labels of the second and third rung exchanged)
threat_map_swapped(buffer) ==
    << <<buffer,      "CRITICAL", 95>>,
       <<2 * buffer,  "MEDIUM",   90>>,
       <<4 * buffer,  "HIGH",     85>>,
       <<8 * buffer,  "LOW",      70>>,
       <<20 * buffer, "LOW",      50>>,
       <<4 * INF,     "SAFE",     0>> >>

\* threat_map, each threshold multiplied by 4
threat_map(buffer) ==
    << <<buffer,      "CRITICAL", 95>>,
       <<2 * buffer,  "HIGH",     90>>,
       <<4 * buffer,  "MEDIUM",   85>>,
       <<8 * buffer,  "LOW",      70>>,
       <<20 * buffer, "LOW",      50>>,
       <<4 * INF,     "SAFE",     0>> >>

\* (variant: "<=" for "<")
RECURSIVE PointLadderInclusive(_, _)
PointLadderInclusive(distance, tmap) ==
    IF tmap = <<>> THEN [threat_level |-> "SAFE", certainty |-> 0]
    ELSE IF 4 * distance <= Head(tmap)[1]
         THEN [threat_level |-> Head(tmap)[2], certainty |-> Head(tmap)[3]]
         ELSE PointLadderInclusive(distance, Tail(tmap))

\* "for threshold, level, cert in threat_map: if distance_km < threshold"
RECURSIVE PointLadder(_, _)
PointLadder(distance, tmap) ==
    IF tmap = <<>> THEN [threat_level |-> "SAFE", certainty |-> 0]
    ELSE IF 4 * distance < Head(tmap)[1]
         THEN [threat_level |-> Head(tmap)[2], certainty |-> Head(tmap)[3]]
         ELSE PointLadder(distance, Tail(tmap))

\* (variant: outside the polygon, the levels of the point ladder)
PolygonLadderAsPoint(is_in_zone, distance, buffer) ==
    IF is_in_zone THEN [threat_level |-> "CRITICAL", certainty |-> 100]
    ELSE LET level == PointLadder(distance, threat_map(buffer)).threat_level
         IN  [threat_level |-> level,
              certainty |-> CASE level = "CRITICAL" -> 100
                              [] level = "HIGH"     -> 95
                              [] level = "MEDIUM"   -> 90
                              [] level = "LOW"      -> 70
                              [] OTHER              -> 50]

\* the if/elif chain of the polygon case
PolygonLadder(is_in_zone, distance, buffer) ==
    IF is_in_zone THEN [threat_level |-> "CRITICAL", certainty |-> 100]
    ELSE IF 2 * distance < buffer THEN [threat_level |-> "HIGH", certainty |-> 95]
    ELSE IF distance < buffer THEN [threat_level |-> "MEDIUM", certainty |-> 90]
    ELSE IF distance < 2 * buffer THEN [threat_level |-> "LOW", certainty |-> 70]
    ELSE [threat_level |-> "SAFE", certainty |-> 50]

\* "if warn_type == 'point' or len(coords) == 1"
IsPointCase(warning_data) ==
    warning_data.type = "point" \/ Len(warning_data.coordinates) = 1

detect_zone_threat(vessel, warning_data, buffer) ==
    LET coords == warning_data.coordinates
    IN  IF coords = <<>>
        THEN [threat_level |-> "SAFE", distance_km |-> INF, is_in_zone |-> FALSE,
              buffer_km |-> -1, certainty |-> 100]
        ELSE IF IsPointCase(warning_data)
        THEN LET distance == haversine_distance(vessel, coords[1])
                 rung == PointLadder(distance, threat_map(buffer))
             IN  [threat_level |-> rung.threat_level, distance_km |-> distance,
                  is_in_zone |-> 2 * distance < buffer,
                  buffer_km |-> buffer, certainty |-> rung.certainty]
        ELSE LET inside   == is_point_in_polygon(vessel, coords)
                 distance == point_to_polygon_distance(vessel, coords)
                 rung == PolygonLadder(inside, distance, buffer)
             IN  [threat_level |-> rung.threat_level, distance_km |-> distance,
                  is_in_zone |-> inside,
                  buffer_km |-> buffer, certainty |-> rung.certainty]

\* The hazards of the geofence runs: a point, a 10 km square, and the same
\* vertex lists under the other declared type, cut to two vertices, empty,
\* or with a vertex that lacks its longitude.
Square == << <<0, 0>>, <<0, 40>>, <<40, 40>>, <<40, 0>> >>
ZoneWarnings ==
    { Warning(1, "point",   "w", << <<0, 0>> >>),
      Warning(2, "polygon", "w", << <<0, 0>> >>),
      Warning(3, "point",   "w", << <<0, 0>>, <<0, 40>> >>),
      Warning(4, "polygon", "w", << <<0, 0>>, <<0, 40>> >>),
      Warning(5, "point",   "w", Square),
      Warning(6, "polygon", "w", Square),
      Warning(7, "polygon", "w", << <<0, 0>>, <<0>>, <<40, 40>> >>),
      Warning(8, "polygon", "w", <<>>) }

ZoneBuffers == {8, DefaultBuffer}

\* Vessel positions: south of the hazard at the rungs of the ladder and next
\* to them, on the hazard, inside the square and on its boundary.
ZoneNorths == {-101, -100, -99, -41, -40, -39, -21, -20, -19, -16, -11, -10,
               -9, -8, -6, -5, -4, -2, -1, 0, 20}
ZonePositions ==
    {<<n, 0>> : n \in ZoneNorths} \cup {<<20, 20>>, <<3, 4>>, <<80, 80>>, <<20, 60>>}

InitZone ==
    /\ warning \in ZoneWarnings
    /\ buffer_km \in ZoneBuffers
    /\ vessel_pos = NoResult
    /\ threat = NoResult
    /\ prev_threat = NoResult

DetectZoneThreat(pos) ==
    /\ vessel_pos' = pos
    /\ threat' = Some(detect_zone_threat(pos, warning, buffer_km))
    /\ prev_threat' = threat
    /\ UNCHANGED <<warning, buffer_km, coordVars, clusterVars, riskVars,
                 fleetVars, loopVars,
                 serviceVars>>

NextZone == \E pos \in ZonePositions : DetectZoneThreat(pos)

----------------------------------------------------------------------------
(* CoordinateValidatorExtended.calculate_bearing                           *)

\* tan((j + 0.5) degrees) * 100000 for j = 0..44
TanHalfDegrees ==
    <<873, 2619, 4366, 6116, 7870, 9629, 11394, 13165, 14945, 16734, 18534,
      20345, 22169, 24008, 25862, 27732, 29621, 31530, 33460, 35412, 37388,
      39391, 41421, 43481, 45573, 47698, 49858, 52057, 54296, 56577, 58905,
      61280, 63707, 66189, 68728, 71329, 73996, 76733, 79544, 82434, 85408,
      88473, 91633, 94896, 98270>>

\* atan(num / den) in whole degrees, for 0 <= num <= den, den > 0
AtanDegrees(num, den) ==
    Cardinality({j \in 1..45 : TanHalfDegrees[j] * den <= num * 100000})

\* degrees(atan2(east, north)) in [0, 360), to the nearest degree
calculate_bearing(coord1, coord2) ==
    LET north == coord2[1] - coord1[1]
        east  == coord2[2] - coord1[2]
        a == IF north = 0 /\ east = 0 THEN 0
             ELSE IF Abs(east) <= Abs(north) THEN AtanDegrees(Abs(east), Abs(north))
             ELSE 90 - AtanDegrees(Abs(north), Abs(east))
        bearing == IF north >= 0 /\ east >= 0 THEN a
                   ELSE IF north < 0 /\ east >= 0 THEN 180 - a
                   ELSE IF north < 0 THEN a - 180
                   ELSE -a
    IN  (bearing + 360) % 360

----------------------------------------------------------------------------
(* VesselRiskAssessment                                                    *)

MaxWarnings == 2

\* (variant: no entry for TANKER, which then gets the default 1.0)
type_factor_no_tanker(vessel_type) ==
    CASE vessel_type = "CONTAINER" -> 12
      [] vessel_type = "GENERAL"   -> 10
      [] vessel_type = "BULK"      -> 9
      [] vessel_type = "PASSENGER" -> 14
      [] vessel_type = "FISHING"   -> 7
      [] OTHER                     -> 10

\* type_factors.get(vessel_type, 1.0), in tenths
type_factor(vessel_type) ==
    CASE vessel_type = "TANKER"    -> 13
      [] vessel_type = "CONTAINER" -> 12
      [] vessel_type = "GENERAL"   -> 10
      [] vessel_type = "BULK"      -> 9
      [] vessel_type = "PASSENGER" -> 14
      [] vessel_type = "FISHING"   -> 7
      [] OTHER                     -> 10

\* draft_factor = 1.0 + vessel_draft / 15.0 if vessel_draft > 0 else 1.0,
\* in fifteenths
draft_factor(vessel_draft) == IF vessel_draft > 0 THEN 15 + vessel_draft ELSE 15

\* threat_scores[threat_level]
threat_scores(threat_level) ==
    CASE threat_level = "CRITICAL" -> 100
      [] threat_level = "HIGH"     -> 75
      [] threat_level = "MEDIUM"   -> 50
      [] threat_level = "LOW"      -> 25
      [] threat_level = "SAFE"     -> 0

\* Titles of the model and the keywords the code looks for in them:
\*   "gunnery" holds the word for firing practice, "obstruction" the word for
\*   an obstruction to navigation, "typhoon" a word for hurricane or typhoon,
\*   "shoal" a word for shoal or rock, "survey" none of them.
Titles == {"gunnery", "obstruction", "typhoon", "shoal", "survey"}

\* type_multiplier, in tenths
type_multiplier(warning_title) ==
    CASE warning_title = "gunnery"     -> 15
      [] warning_title = "obstruction" -> 13
      [] warning_title = "typhoon"     -> 12
      [] OTHER                         -> 10

\* warning_center: the mean of the vertices, or the only vertex
warning_center(warning_coords) ==
    IF Len(warning_coords) > 1
        THEN <<SumSeq([k \in 1..Len(warning_coords) |-> warning_coords[k][1]])
                   \div Len(warning_coords),
               SumSeq([k \in 1..Len(warning_coords) |-> warning_coords[k][2]])
                   \div Len(warning_coords)>>
        ELSE warning_coords[1]

\* (variant: without "heading_diff = min(heading_diff, 360 - heading_diff)")
approach_factor_plain_difference(vessel_heading, bearing_to_warning) ==
    Max(0, 180 - Abs(vessel_heading - bearing_to_warning))

\* approach_factor, in 180ths
approach_factor(vessel_heading, bearing_to_warning) ==
    LET d == Abs(vessel_heading - bearing_to_warning)
        heading_diff == Min(d, 360 - d)
    IN  Max(0, 180 - heading_diff)

\* distance_penalty = max(0, 1 - distance / 20), in 80ths (20 km = 80 units)
distance_penalty(distance) == Max(0, 80 - distance)

\* (variant: clipped to [0, 100])
RawScoreClipped(base_score, tf, df, tm, penalty, approach) ==
    Min(100 * 4800, Max(0, (base_score \div 25) * tf * df * tm * penalty + 400 * approach))

\* adjusted_score * distance_penalty + approach_bonus * 50, as a multiple of
\* 1/4800: base/25 * tenths * fifteenths * tenths * 80ths is in 1/4800, and
\* approach_bonus * 50 = approach_factor * 15 = 400 * (180ths) / 4800.
RawScore(base_score, tf, df, tm, penalty, approach) ==
    (base_score \div 25) * tf * df * tm * penalty + 400 * approach

\* One pass of the "for idx, warning in enumerate(warnings_data)" loop: the
\* entry appended to nearby_threats, with the unrounded score (in 1/96000)
\* beside the reported final_score (hundredths).
ThreatEntry(vessel, w) ==
    LET t == detect_zone_threat(<<vessel.lat, vessel.lon>>, w, DefaultBuffer)
        bearing == calculate_bearing(<<vessel.lat, vessel.lon>>,
                                     warning_center(w.coordinates))
        approach == IF w.coordinates # <<>>
                        THEN approach_factor(vessel.heading, bearing) ELSE 90
        raw == RawScore(threat_scores(t.threat_level), type_factor(vessel.type),
                        draft_factor(vessel.draft_m), type_multiplier(w.title),
                        distance_penalty(t.distance_km), approach)
        exact == raw * (t.certainty \div 5)
    IN  [threat_level |-> t.threat_level, distance_km |-> t.distance_km,
         is_in_zone |-> t.is_in_zone, buffer_km |-> t.buffer_km,
         certainty |-> t.certainty,
         warning_title |-> w.title, warning_type |-> w.type, warning_id |-> w.id,
         final_score |-> RoundDiv(exact, 960),
         bearing_to_warning |-> bearing,
         exact_score |-> exact]

\* (variant: SAFE hazards are not skipped)
NearbyThreatsAll(vessel, ws) ==
    [k \in 1..Len(ws) |-> ThreatEntry(vessel, ws[k])]

\* nearby_threats before the sort: the entries of the hazards that are not SAFE
RECURSIVE NearbyThreats(_, _)
NearbyThreats(vessel, ws) ==
    IF ws = <<>> THEN <<>>
    ELSE IF detect_zone_threat(<<vessel.lat, vessel.lon>>, Head(ws),
                               DefaultBuffer).threat_level = "SAFE"
         THEN NearbyThreats(vessel, Tail(ws))
         ELSE <<ThreatEntry(vessel, Head(ws))>> \o NearbyThreats(vessel, Tail(ws))

\* (variant: nearby_threats left in the order of warnings_data)
SortByScoreNone(s) == s

\* list.sort(key=final_score, reverse=True): stable, highest first
RECURSIVE InsertByScore(_, _)
InsertByScore(sorted, e) ==
    IF sorted = <<>> THEN <<e>>
    ELSE IF Head(sorted).final_score >= e.final_score
         THEN <<Head(sorted)>> \o InsertByScore(Tail(sorted), e)
         ELSE <<e>> \o sorted

RECURSIVE SortByScore(_)
SortByScore(s) ==
    IF s = <<>> THEN <<>>
    ELSE InsertByScore(SortByScore(SubSeq(s, 1, Len(s) - 1)), s[Len(s)])

\* the overall threat level from the unrounded overall score sum / n (sum in
\* 1/96000)
OverallThreat(sum, n) ==
    IF sum >= 85 * 96000 * n THEN "CRITICAL"
    ELSE IF sum >= 65 * 96000 * n THEN "HIGH"
    ELSE IF sum >= 45 * 96000 * n THEN "MEDIUM"
    ELSE IF sum >= 25 * 96000 * n THEN "LOW"
    ELSE "SAFE"

\* _generate_recommendations: one tag per appended sentence
generate_recommendations(threat_level, warnings, vessel) ==
    LET general ==
            CASE threat_level = "CRITICAL" ->
                    <<"act_now", "call_vts", "emergency", "ais_10s", "chart">>
                    \o (IF vessel.type = "TANKER" THEN <<"tanker">> ELSE <<>>)
              [] threat_level = "HIGH" ->
                    <<"watch", "reroute", "ais_30s", "brief", "fuel">>
              [] threat_level = "MEDIUM" ->
                    <<"updates", "log", "chart_cpa", "ais_ok">>
              [] threat_level = "LOW" -> <<"routine", "read", "evaluate">>
              [] OTHER -> <<"safe">>
        byTitle(title) ==
            CASE title = "gunnery"     -> <<"leave_firing_area">>
              [] title = "obstruction" -> <<"obstruction">>
              [] title = "typhoon"     -> <<"weather">>
              [] title = "shoal"       -> <<"terrain">>
              [] OTHER                 -> <<>>
    IN  general \o FlattenSeq([k \in 1..Min(2, Len(warnings)) |->
                                   byTitle(warnings[k].warning_title)])

\* the record assess_vessel_threat returns, from the sorted nearby_threats
RiskProfile(vessel, nearby) ==
    LET n   == Len(nearby)
        sum == SumSeq([k \in 1..n |-> nearby[k].exact_score])
        capped == IF n > 0 THEN Min(100 * 96000 * n, sum) ELSE 0
        overall_threat == OverallThreat(capped, Max(1, n))
    IN  [vessel_name |-> vessel.name,
         vessel_type |-> vessel.type,
         vessel_position |-> <<vessel.lat, vessel.lon>>,
         vessel_speed |-> vessel.speed_knots,
         vessel_heading |-> vessel.heading,
         vessel_draft |-> vessel.draft_m,
         overall_risk_score |-> RoundDiv(capped, 960 * Max(1, n)),
         threat_level |-> overall_threat,
         action_urgency |-> CASE overall_threat = "CRITICAL" -> "IMMEDIATE"
                              [] overall_threat = "HIGH"     -> "URGENT"
                              [] overall_threat = "MEDIUM"   -> "SOON"
                              [] overall_threat = "LOW"      -> "MONITOR"
                              [] OTHER                       -> "ROUTINE",
         nearby_warnings |-> SubSeq(nearby, 1, Min(5, n)),
         warning_count |-> n,
         recommendations |-> generate_recommendations(overall_threat, nearby, vessel),
         action_required |-> overall_threat \in {"CRITICAL", "HIGH"},
         confidence |-> RoundDiv(SumSeq([k \in 1..n |-> nearby[k].certainty]),
                                 Max(1, n))]

\* nearby_threats is built and sorted once, then read
assess_vessel_threat(vessel, ws) ==
    CHOOSE profile \in {RiskProfile(vessel, nearby) :
                            nearby \in {SortByScore(NearbyThreats(vessel, ws))}} : TRUE

RiskWarnings ==
    { Warning(1, "point",   "gunnery",     << <<0, 0>> >>),
      Warning(2, "point",   "obstruction", << <<0, 40>> >>),
      Warning(3, "polygon", "typhoon",     Square),
      Warning(4, "point",   "survey",      << <<200, 0>> >>),
      Warning(5, "polygon", "shoal",       << <<0, 0>>, <<0, 40>> >>) }

\* Bulletins with more than five hazards near the vessel positions.
MoreWarnings ==
    { Warning(6, "point", "shoal",       << <<4, 0>> >>),
      Warning(7, "point", "typhoon",     << <<0, -8>> >>),
      Warning(8, "point", "survey",      << <<-12, 0>> >>),
      Warning(9, "point", "obstruction", << <<10, 10>> >>) }
AllWarnings == RiskWarnings \cup MoreWarnings
WarningById(id) == CHOOSE w \in AllWarnings : w.id = id
LongWarningLists ==
    { [k \in 1..8 |-> WarningById(<<2, 6, 3, 1, 7, 4, 8, 9>>[k])],
      [k \in 1..7 |-> WarningById(<<9, 8, 7, 6, 3, 2, 1>>[k])] }

WarningLists ==
    UNION {[1..n -> RiskWarnings] : n \in 0..MaxWarnings} \cup LongWarningLists

VesselTypes == {"TANKER", "CONTAINER", "GENERAL", "BULK", "PASSENGER", "FISHING", "TUG"}
VesselPositions ==
    {<<0, 0>>, <<-8, 0>>, <<20, 20>>, <<-30, 0>>, <<0, -4>>, <<-8, 40>>, <<192, 0>>}
VesselDrafts == {0, 15}
VesselHeadings == {0, 89, 90, 270}

Vessels ==
    {[name |-> "V", lat |-> p[1], lon |-> p[2], speed_knots |-> 12,
      draft_m |-> d, type |-> ty, heading |-> h] :
        p \in VesselPositions, d \in VesselDrafts, ty \in VesselTypes,
        h \in VesselHeadings}

InitRisk ==
    /\ vessel_data \in Vessels
    /\ warnings_data \in WarningLists
    /\ assessment = NoResult

AssessVesselThreat ==
    /\ assessment = NoResult
    /\ assessment' = Some(assess_vessel_threat(vessel_data, warnings_data))
    /\ UNCHANGED <<vessel_data, warnings_data, coordVars, clusterVars, zoneVars,
                 fleetVars, loopVars,
                 serviceVars>>

NextRisk == AssessVesselThreat

----------------------------------------------------------------------------
(* VesselRiskAssessment.assess_fleet_status                                *)

MaxFleet == 3

Levels == {"CRITICAL", "HIGH", "MEDIUM", "LOW", "SAFE"}

\* the entry appended to critical_alerts for a CRITICAL assessment
CriticalAlert(a) ==
    [vessel |-> a.vessel_name,
     threat_level |-> a.threat_level,
     score |-> a.overall_risk_score,
     nearest_warning |-> IF a.nearby_warnings # <<>>
                             THEN a.nearby_warnings[1].warning_title ELSE "N/A",
     distance |-> IF a.nearby_warnings # <<>>
                      THEN Some(a.nearby_warnings[1].distance_km) ELSE NoResult]

\* critical_alerts before the sort, in the order of fleet_data
RECURSIVE CriticalAlerts(_)
CriticalAlerts(reports) ==
    IF reports = <<>> THEN <<>>
    ELSE (IF Head(reports).threat_level = "CRITICAL"
              THEN <<CriticalAlert(Head(reports))>> ELSE <<>>)
         \o CriticalAlerts(Tail(reports))

RECURSIVE InsertAlert(_, _)
InsertAlert(sorted, e) ==
    IF sorted = <<>> THEN <<e>>
    ELSE IF Head(sorted).score >= e.score
         THEN <<Head(sorted)>> \o InsertAlert(Tail(sorted), e)
         ELSE <<e>> \o sorted

\* (variant: the alerts left in the order of fleet_data)
SortAlertsNone(alerts) == alerts

\* critical_alerts.sort(key=score, reverse=True): stable, highest first
RECURSIVE SortAlerts(_)
SortAlerts(alerts) ==
    IF alerts = <<>> THEN <<>>
    ELSE InsertAlert(SortAlerts(SubSeq(alerts, 1, Len(alerts) - 1)),
                     alerts[Len(alerts)])

\* the record assess_fleet_status returns, from the vessel reports
FleetReport(reports) ==
    LET count(levels) ==
            Cardinality({k \in 1..Len(reports) : reports[k].threat_level \in levels})
        critical == count({"CRITICAL"})
        high     == count({"HIGH"})
        medium   == count({"MEDIUM"})
        safe     == count({"MEDIUM", "LOW", "SAFE"})
    IN  [total_vessels |-> Len(reports),
         threat_distribution |-> [l \in Levels |-> count({l})],
         vessels_in_critical_danger |-> critical,
         vessels_in_high_risk |-> high,
         vessels_safe |-> safe,
         vessel_reports |-> reports,
         critical_alerts |-> SortAlerts(CriticalAlerts(reports)),
         recommended_actions |->
             (IF critical > 0 THEN <<[tag |-> "critical", n |-> critical]>> ELSE <<>>)
             \o (IF high > 0 THEN <<[tag |-> "high", n |-> high]>> ELSE <<>>)
             \o (IF medium > 0 THEN <<[tag |-> "medium", n |-> medium]>> ELSE <<>>)
             \o <<[tag |-> "safety_percentage",
                   n |-> RoundDiv(safe * 1000, Max(1, Len(reports)))]>>]

\* each vessel is assessed once, then the reports are counted
assess_fleet_status(fleet, ws) ==
    CHOOSE report \in
        {FleetReport(reports) :
            reports \in {[k \in 1..Len(fleet) |-> assess_vessel_threat(fleet[k], ws)]}}
        : TRUE

\* Fleets of the model: the k-th vessel is named after its place.
FleetNames == <<"A", "B", "C", "D">>
FleetVessels ==
    {v \in Vessels : /\ v.type \in {"TANKER", "FISHING"}
                     /\ v.draft_m = 0
                     /\ v.heading = 0
                     /\ <<v.lat, v.lon>> \in {<<-8, 0>>, <<192, 0>>, <<-30, 0>>}}
Fleets ==
    UNION {{[k \in 1..n |-> [f[k] EXCEPT !.name = FleetNames[k]]] :
                f \in [1..n -> FleetVessels]} : n \in 0..MaxFleet}
FleetWarningLists ==
    {<<Warning(1, "point", "gunnery", << <<0, 0>> >>),
       Warning(4, "point", "survey", << <<200, 0>> >>)>>,
     <<Warning(3, "polygon", "typhoon", Square)>>}

InitFleet ==
    /\ fleet_data \in Fleets
    /\ warnings_data \in FleetWarningLists
    /\ fleet_assessment = NoResult
    /\ vessel_data = [name |-> "V", lat |-> 0, lon |-> 0, speed_knots |-> 12,
                      draft_m |-> 0, type |-> "GENERAL", heading |-> 0]
    /\ assessment = NoResult

AssessFleetStatus ==
    /\ fleet_assessment = NoResult
    /\ fleet_assessment' = Some(assess_fleet_status(fleet_data, warnings_data))
    /\ UNCHANGED <<fleet_data, coordVars, clusterVars, zoneVars, riskVars, loopVars,
                 serviceVars>>

NextFleet == AssessFleetStatus

----------------------------------------------------------------------------
(* DatabaseManager                                                         *)

MaxRows == 2

\* Values of the fields that can be None (NULL in the table), a string or a
\* list.
PyNone == [kind |-> "None", text |-> "", items |-> <<>>]
PyStr(s) == [kind |-> "str", text |-> s, items |-> <<>>]
PyList(xs) == [kind |-> "list", text |-> "", items |-> xs]

\* the truth value of a Python value: None, '' and [] are false
Truthy(v) ==
    \/ v.kind = "str" /\ v.text # ""
    \/ v.kind = "list" /\ v.items # <<>>

\* json.dumps of a list of [lat, lon] pairs (tenths of a degree in the model)
json_dumps(items) ==
    CASE items = <<>>                -> "[]"
      [] items = << <<255, 1213>> >> -> "[[25.5, 121.3]]"
      [] items = << <<180, 1090>> >> -> "[[18.0, 109.0]]"
      [] OTHER                       -> "[[...]]"

\* UNIQUE(maritime_bureau, title, publish_time, source_type): a row conflicts
\* with the values to insert when the four are equal; NULL equals nothing.
SameKey(row, data, source_type) ==
    /\ row.maritime_bureau = data.maritime_bureau
    /\ row.title = data.title
    /\ row.publish_time.kind = "str" /\ row.publish_time = data.publish_time
    /\ row.source_type = source_type

\* the "coordinates = data[6] ..., json.dumps" lines of save_warning
EncodeCoordinates(data) ==
    IF data.coordinates.kind = "list"
        THEN PyStr(json_dumps(data.coordinates.items))
        ELSE data.coordinates

NewRow(id, data, source_type) ==
    [id |-> id,
     maritime_bureau |-> data.maritime_bureau, title |-> data.title,
     link |-> data.link, publish_time |-> data.publish_time,
     keywords_matched |-> data.keywords_matched, scrape_time |-> data.scrape_time,
     coordinates |-> EncodeCoordinates(data),
     source_type |-> source_type,
     source_country |-> IF source_type = "TW_MPB" THEN "TW" ELSE "CN",
     is_notified |-> 0]

\* (variant: INSERT without OR IGNORE and without the UNIQUE constraint)
save_warning_always_insert(tbl, data, source_type) ==
    [table |-> Append(tbl, NewRow(Len(tbl) + 1, data, source_type)),
     is_new |-> TRUE, warning_id |-> Len(tbl) + 1]

\* save_warning: the table after the call and the returned (is_new,
\* warning_id).  Ids are given in insertion order, from 1.
save_warning(tbl, data, source_type) ==
    LET new_coords == EncodeCoordinates(data)
        conflicts == {k \in 1..Len(tbl) : SameKey(tbl[k], data, source_type)}
    IN  IF conflicts = {}
            THEN [table |-> Append(tbl, NewRow(Len(tbl) + 1, data, source_type)),
                  is_new |-> TRUE, warning_id |-> Len(tbl) + 1]
            ELSE LET k == CHOOSE c \in conflicts : \A d \in conflicts : c <= d
                     existing_coords == tbl[k].coordinates
                 IN  [table |-> IF Truthy(new_coords) /\ ~Truthy(existing_coords)
                                    THEN [tbl EXCEPT ![k].coordinates = new_coords]
                                    ELSE tbl,
                      is_new |-> FALSE, warning_id |-> tbl[k].id]

\* one row as get_unnotified_warnings selects it: ten columns
SelectedRow(row) ==
    <<row.id, row.maritime_bureau, row.title, row.link, row.publish_time,
      row.keywords_matched, row.scrape_time, row.coordinates, row.source_type,
      row.source_country>>

\* get_unnotified_warnings(): the rows with is_notified = 0.  ORDER BY
\* scrape_time DESC: the rows of the model carry one scrape_time, and are
\* listed in id order.
RECURSIVE get_unnotified_warnings(_)
get_unnotified_warnings(tbl) ==
    IF tbl = <<>> THEN <<>>
    ELSE (IF Head(tbl).is_notified = 0 THEN <<SelectedRow(Head(tbl))>> ELSE <<>>)
             \o get_unnotified_warnings(Tail(tbl))

\* mark_as_notified: UPDATE ... WHERE id = ?; False when rowcount is 0
mark_as_notified(tbl, warning_id) ==
    LET hit == {k \in 1..Len(tbl) : tbl[k].id = warning_id}
    IN  [table |-> [k \in 1..Len(tbl) |->
                       IF k \in hit THEN [tbl[k] EXCEPT !.is_notified = 1] ELSE tbl[k]],
         result |-> hit # {}]

\* The arguments of the calls of the model.
CoordinateArguments ==
    {PyNone, PyStr(""), PyList(<<>>),
     PyList(<< <<255, 1213>> >>), PyList(<< <<180, 1090>> >>)}
\* A dated warning with each coordinates argument, and an undated one (NULL
\* publish_time) without coordinates.
WarningData ==
    {[maritime_bureau |-> "B", title |-> "T", link |-> "link",
      publish_time |-> PyStr("2026-01-01"), keywords_matched |-> "kw",
      scrape_time |-> "now", coordinates |-> c] : c \in CoordinateArguments}
    \cup
    {[maritime_bureau |-> "B", title |-> "T", link |-> "link",
      publish_time |-> PyNone, keywords_matched |-> "kw",
      scrape_time |-> "now", coordinates |-> PyNone]}
SourceTypes == {"CN_MSA", "TW_MPB"}

InitStore ==
    /\ table = <<>>
    /\ db_call = NoResult
    /\ db_before = <<>>
    /\ db_result = NoResult

SaveWarning(data, source_type) ==
    /\ \E r \in {save_warning(table, data, source_type)} :
          /\ Len(r.table) <= MaxRows
          /\ table' = r.table
          /\ db_result' = Some(<<r.is_new, r.warning_id>>)
    /\ db_call' = Some([op |-> "save_warning", data |-> data,
                        source_type |-> source_type, warning_id |-> 0])
    /\ db_before' = table
    /\ UNCHANGED <<coordVars, clusterVars, zoneVars, riskVars, fleetVars, loopVars,
                 scraperVars, keywordVars>>

MarkAsNotified(warning_id) ==
    /\ \E r \in {mark_as_notified(table, warning_id)} :
          /\ table' = r.table
          /\ db_result' = Some(<<r.result, warning_id>>)
    /\ db_call' = Some([op |-> "mark_as_notified", data |-> CHOOSE d \in WarningData : TRUE,
                        source_type |-> "", warning_id |-> warning_id])
    /\ db_before' = table
    /\ UNCHANGED <<coordVars, clusterVars, zoneVars, riskVars, fleetVars, loopVars,
                 scraperVars, keywordVars>>

NextStore ==
    \/ \E data \in WarningData, source_type \in SourceTypes :
           SaveWarning(data, source_type)
    \/ \E warning_id \in 1..(MaxRows + 1) : MarkAsNotified(warning_id)

----------------------------------------------------------------------------
(* TeamsNotifier and MSANavigationWarningsScraper                          *)

MaxRuns == 3

\* send_batch_notification shows warnings_list[:8]
ShownInBatch == 8
\* both send functions unpack a warning into seven names
UnpackedFields == 7

\* what the webhook does with a request: status 202, another status, or
\* requests.post raises
Outcomes == {"accepted", "rejected", "raised"}

RECURSIVE IdsOf(_)
IdsOf(warnings_list) ==
    IF warnings_list = <<>> THEN {}
    ELSE {Head(warnings_list)[1]} \cup IdsOf(Tail(warnings_list))

\* (variant: reports success whatever the webhook answered)
send_warning_notification_always_true(warning_data, outcome) ==
    IF Len(warning_data) # UnpackedFields
        THEN [raised |-> TRUE, requests |-> <<>>, success |-> FALSE]
        ELSE [raised |-> FALSE,
              requests |-> <<[ids |-> {warning_data[1]}, outcome |-> outcome]>>,
              success |-> TRUE]

\* send_warning_notification: the unpacking raises ValueError unless the
\* warning has seven fields; then one request is posted, and the result is
\* True exactly on status 202.
send_warning_notification(warning_data, outcome) ==
    IF Len(warning_data) # UnpackedFields
        THEN [raised |-> TRUE, requests |-> <<>>, success |-> FALSE]
        ELSE [raised |-> FALSE,
              requests |-> <<[ids |-> {warning_data[1]}, outcome |-> outcome]>>,
              success |-> outcome = "accepted"]

\* send_batch_notification: True without a request for an empty list; the
\* card is built of the first eight warnings, each unpacked into seven names
\* outside the try block, so a warning of another length raises ValueError
\* before anything is posted.
send_batch_notification(warnings_list, outcome) ==
    LET shown == SubSeq(warnings_list, 1,
                        IF Len(warnings_list) < ShownInBatch
                            THEN Len(warnings_list) ELSE ShownInBatch)
    IN  IF warnings_list = <<>>
            THEN [raised |-> FALSE, requests |-> <<>>, success |-> TRUE]
        ELSE IF \E k \in 1..Len(shown) : Len(shown[k]) # UnpackedFields
            THEN [raised |-> TRUE, requests |-> <<>>, success |-> FALSE]
        ELSE [raised |-> FALSE,
              requests |-> <<[ids |-> IdsOf(shown), outcome |-> outcome]>>,
              success |-> outcome = "accepted"]

\* enable_teams and webhook_url: the runs of the model have Teams enabled
enable_teams == TRUE

\* The titles the site can list; every listed item matches a keyword and is
\* dated within three days.
ListedTitles == {"T1", "T2"}
PublishedLists ==
    {<<>>} \cup {<<t>> : t \in ListedTitles} \cup {<<t, u>> : t \in ListedTitles, u \in ListedTitles}

\* the six-field data tuple of a listed item, as save_warning reads it
ItemData(title) ==
    [maritime_bureau |-> "B", title |-> title, link |-> "link",
     publish_time |-> PyStr("2026-01-01"), keywords_matched |-> "kw",
     scrape_time |-> "now", coordinates |-> PyNone]
DataTuple(data) ==
    <<data.maritime_bureau, data.title, data.link, data.publish_time,
      data.keywords_matched, data.scrape_time>>

\* (variant: every listed warning with an id counts as new)
IsNewWheneverStored(saved) == saved.warning_id # 0

\* "if is_new and warning_id"
IsNew(saved) == saved.is_new /\ saved.warning_id # 0

RECURSIVE MarkAll(_, _)
MarkAll(tbl, ids) ==
    IF ids = <<>> THEN tbl
    ELSE MarkAll(mark_as_notified(tbl, Head(ids)).table, Tail(ids))

\* the body of the item loop of scrape_bureau_warnings from save_warning on
ProcessItem(tbl, mode, title, outcome) ==
    LET data == ItemData(title)
        saved == save_warning(tbl, data, "CN_MSA")
        fresh == IsNew(saved)
        sending == fresh /\ enable_teams /\ mode = "individual"
        sent == send_warning_notification(<<saved.warning_id>> \o DataTuple(data),
                                          outcome)
    IN  [table |-> IF sending /\ sent.success
                       THEN mark_as_notified(saved.table, saved.warning_id).table
                       ELSE saved.table,
         found |-> IF fresh THEN <<saved.warning_id>> ELSE <<>>,
         requests |-> IF sending THEN sent.requests ELSE <<>>]

RECURSIVE WarningsToSend(_, _)
WarningsToSend(ids, unnotified) ==
    IF ids = <<>> THEN <<>>
    ELSE LET hits == {k \in 1..Len(unnotified) : unnotified[k][1] = Head(ids)}
         IN  (IF hits = {} THEN <<>>
              ELSE <<unnotified[CHOOSE k \in hits : \A h \in hits : k <= h]>>)
                 \o WarningsToSend(Tail(ids), unnotified)

\* send_batch_notifications
BatchResult(tbl, ids, outcome) ==
    LET warnings_to_send == WarningsToSend(ids, get_unnotified_warnings(tbl))
        sent == send_batch_notification(warnings_to_send, outcome)
    IN  IF ~enable_teams \/ ids = <<>> \/ warnings_to_send = <<>>
            THEN [table |-> tbl, requests |-> <<>>, raised |-> FALSE]
        ELSE [table |-> IF sent.success THEN MarkAll(tbl, ids) ELSE tbl,
              requests |-> sent.requests, raised |-> sent.raised]

\* ids of the warnings of the listing that are stored and not yet notified
StoredUnnotified(tbl, items) ==
    {k \in 1..Len(tbl) :
        /\ tbl[k].is_notified = 0
        /\ \E n \in 1..Len(items) : SameKey(tbl[k], ItemData(items[n]), "CN_MSA")}

AcceptedIn(requests) ==
    UNION {requests[k].ids : k \in {n \in 1..Len(requests) :
                                       requests[n].outcome = "accepted"}}

InitScraper ==
    /\ send_mode \in {"batch", "individual"}
    /\ listing = <<>>
    /\ new_warnings = <<>>
    /\ run_pc = "idle"
    /\ runs = 0
    /\ requests_log = <<>>
    /\ accepted_ids = {}
    /\ due = {}

\* A new process: the constructor, and run() up to the item loops.
StartRun(items) ==
    /\ run_pc \in {"idle", "done", "failed"}
    /\ runs < MaxRuns
    /\ runs' = runs + 1
    /\ run_pc' = "scraping"
    /\ listing' = items
    /\ new_warnings' = <<>>
    /\ requests_log' = <<>>
    /\ due' = StoredUnnotified(table, items)
    /\ UNCHANGED <<send_mode, accepted_ids>>
    /\ UNCHANGED <<coordVars, clusterVars, zoneVars, riskVars, fleetVars, loopVars,
                 storeVars, keywordVars>>

ScrapeItem ==
    /\ run_pc = "scraping"
    /\ listing # <<>>
    /\ \E outcome \in Outcomes :
          \E r \in {ProcessItem(table, send_mode, Head(listing), outcome)} :
              /\ table' = r.table
              /\ new_warnings' = new_warnings \o r.found
              /\ requests_log' = requests_log \o r.requests
              /\ accepted_ids' = accepted_ids \cup AcceptedIn(r.requests)
    /\ listing' = Tail(listing)
    /\ UNCHANGED <<send_mode, run_pc, runs, due>>
    /\ UNCHANGED <<db_call, db_before, db_result>>
    /\ UNCHANGED <<coordVars, clusterVars, zoneVars, riskVars, fleetVars, loopVars,
                 keywordVars>>

\* run() after the item loops in batch mode; an exception of
\* send_batch_notifications ends the run in the except branch of run().
SendBatchNotifications ==
    /\ run_pc = "scraping"
    /\ listing = <<>>
    /\ send_mode = "batch"
    /\ \E outcome \in Outcomes :
          \E r \in {BatchResult(table, new_warnings, outcome)} :
              /\ table' = r.table
              /\ requests_log' = requests_log \o r.requests
              /\ accepted_ids' = accepted_ids \cup AcceptedIn(r.requests)
              /\ run_pc' = IF r.raised THEN "failed" ELSE "done"
    /\ UNCHANGED <<send_mode, listing, new_warnings, runs, due>>
    /\ UNCHANGED <<db_call, db_before, db_result>>
    /\ UNCHANGED <<coordVars, clusterVars, zoneVars, riskVars, fleetVars, loopVars,
                 keywordVars>>

\* run() after the item loops in individual mode
FinishRun ==
    /\ run_pc = "scraping"
    /\ listing = <<>>
    /\ send_mode = "individual"
    /\ run_pc' = "done"
    /\ UNCHANGED <<send_mode, listing, new_warnings, runs, requests_log,
                 accepted_ids, due>>
    /\ UNCHANGED <<coordVars, clusterVars, zoneVars, riskVars, fleetVars, loopVars,
                 storeVars, keywordVars>>

NextScraper ==
    \/ \E items \in PublishedLists : StartRun(items)
    \/ ScrapeItem
    \/ SendBatchNotifications
    \/ FinishRun

----------------------------------------------------------------------------
(* KeywordManager                                                          *)

MaxKeywords == 3

\* The strings of the model and the string functions the code applies to
\* them.  "adrift" stands for the entry that the default list of the
\* category "danger" holds twice.
Words == {"adrift", "Drill", " fire ", "x"}

\* str.strip()
Strip(w) ==
    CASE w = " fire " -> "fire"
      [] OTHER        -> w

\* str.lower()
Lower(w) ==
    CASE w = "Drill" -> "drill"
      [] OTHER       -> w

\* len(): the one-character strings of the model
TooShort(w) == w \in {"x", ""}

\* the order of sorted() on the stripped strings: by code point, capitals first
SortRank(w) ==
    CASE w = "Drill"    -> 1
      [] w = "adrift"   -> 2
      [] w = "drill"    -> 3
      [] w = "fire"     -> 4
      [] OTHER          -> 5

\* sorted(self.keywords): entry n goes to the place after the entries that
\* sort before it and the equal entries that precede it
SortedPlace(list, n) ==
    1 + Cardinality({m \in 1..Len(list) :
                        \/ SortRank(list[m]) < SortRank(list[n])
                        \/ SortRank(list[m]) = SortRank(list[n]) /\ m < n})

Sorted(list) ==
    [p \in 1..Len(list) |-> list[CHOOSE n \in 1..Len(list) : SortedPlace(list, n) = p]]

\* any(k.lower() == keyword.lower() for k in self.keywords)
ExistsIgnoringCase(list, keyword) ==
    \E n \in 1..Len(list) : Lower(list[n]) = Lower(keyword)

\* the first k of the list with k.lower() == keyword.lower(), as an index; 0
\* when there is none
FoundIndex(list, keyword) ==
    LET hits == {n \in 1..Len(list) : Lower(list[n]) = Lower(keyword)}
    IN  IF hits = {} THEN 0 ELSE CHOOSE n \in hits : \A h \in hits : n <= h

\* list.index(w), 0 when w is not in the list
IndexOf(list, w) ==
    LET hits == {n \in 1..Len(list) : list[n] = w}
    IN  IF hits = {} THEN 0 ELSE CHOOSE n \in hits : \A h \in hits : n <= h

\* list.remove(w) under "if w in list": the first occurrence only
RemoveFirst(list, w) ==
    LET n == IndexOf(list, w)
    IN  IF n = 0 THEN list
        ELSE SubSeq(list, 1, n - 1) \o SubSeq(list, n + 1, Len(list))

\* list[list.index(w)] = v under "if w in list"
ReplaceFirst(list, w, v) ==
    LET n == IndexOf(list, w)
    IN  IF n = 0 THEN list ELSE [list EXCEPT ![n] = v]

\* "if category: ... self.keyword_categories[category].append(keyword)";
\* the empty string stands for category=None
AppendToCategory(cats, category, keyword) ==
    IF category = "" THEN cats
    ELSE [c \in DOMAIN cats \cup {category} |->
             IF c = category
                 THEN (IF c \in DOMAIN cats THEN cats[c] ELSE <<>>) \o <<keyword>>
                 ELSE cats[c]]

add_keyword(list, cats, raw_keyword, category) ==
    LET keyword == Strip(raw_keyword)
    IN  IF TooShort(keyword) \/ ExistsIgnoringCase(list, keyword)
            THEN [keywords |-> list, categories |-> cats, result |-> FALSE]
            ELSE [keywords |-> Sorted(Append(list, keyword)),
                  categories |-> AppendToCategory(cats, category, keyword),
                  result |-> TRUE]

remove_keyword(list, cats, keyword) ==
    LET n == FoundIndex(list, keyword)
    IN  IF n = 0
            THEN [keywords |-> list, categories |-> cats, result |-> FALSE]
            ELSE [keywords |-> RemoveFirst(list, list[n]),
                  categories |-> [c \in DOMAIN cats |-> RemoveFirst(cats[c], list[n])],
                  result |-> TRUE]

update_keyword(list, cats, old_keyword, raw_keyword) ==
    LET new_keyword == Strip(raw_keyword)
        n == FoundIndex(list, old_keyword)
    IN  IF TooShort(new_keyword) \/ n = 0
            THEN [keywords |-> list, categories |-> cats, result |-> FALSE]
            ELSE [keywords |-> Sorted([list EXCEPT ![n] = new_keyword]),
                  categories |-> [c \in DOMAIN cats |->
                                     ReplaceFirst(cats[c], list[n], new_keyword)],
                  result |-> TRUE]

\* the loop of import_keywords: the lists after it and the number added
RECURSIVE ImportLoop(_, _, _, _, _)
ImportLoop(list, cats, keywords_list, category, added) ==
    IF keywords_list = <<>>
        THEN [keywords |-> list, categories |-> cats, result |-> added]
    ELSE LET keyword == Strip(Head(keywords_list))
         IN  IF keyword # "" /\ ~TooShort(keyword) /\ ~ExistsIgnoringCase(list, keyword)
                 THEN CHOOSE done \in
                          {ImportLoop(longer, filed, Tail(keywords_list), category,
                                      added + 1) :
                              longer \in {Append(list, keyword)},
                              filed \in {AppendToCategory(cats, category, keyword)}} :
                          TRUE
                 ELSE ImportLoop(list, cats, Tail(keywords_list), category, added)

import_keywords(list, cats, keywords_list, category) ==
    LET done == CHOOSE d \in {ImportLoop(list, cats, keywords_list, category, 0)} :
                    TRUE
    IN  [keywords |-> IF done.result > 0 THEN Sorted(done.keywords) ELSE done.keywords,
         categories |-> done.categories,
         result |-> done.result]

\* set_default_keywords, at the size of the model: one category, with one
\* entry written twice, and the sorted union as the list.
DefaultCategories ==
    [c \in {"danger"} |-> <<"adrift", "drill", "adrift">>]
DefaultKeywords == <<"adrift", "drill">>

CategoryArguments == {"", "custom"}
ImportLists == {<<"Drill", " fire ", "x">>}

InitKeywords ==
    /\ keywords = DefaultKeywords
    /\ keyword_categories = DefaultCategories
    /\ kw_call = NoResult
    /\ kw_result = NoResult

KeywordCall(op, keyword, other, r) ==
    /\ Len(r.keywords) <= MaxKeywords
    /\ \A c \in DOMAIN r.categories : Len(r.categories[c]) <= MaxKeywords
    /\ keywords' = r.keywords
    /\ keyword_categories' = r.categories
    /\ kw_call' = Some([op |-> op, keyword |-> keyword, other |-> other])
    /\ kw_result' = Some(r.result)
    /\ UNCHANGED <<coordVars, clusterVars, zoneVars, riskVars, fleetVars, loopVars,
                 storeVars, scraperVars>>

AddKeyword(keyword, category) ==
    \E r \in {add_keyword(keywords, keyword_categories, keyword, category)} :
        KeywordCall("add_keyword", keyword, category, r)

RemoveKeyword(keyword) ==
    \E r \in {remove_keyword(keywords, keyword_categories, keyword)} :
        KeywordCall("remove_keyword", keyword, "", r)

UpdateKeyword(old_keyword, new_keyword) ==
    \E r \in {update_keyword(keywords, keyword_categories, old_keyword, new_keyword)} :
        KeywordCall("update_keyword", old_keyword, new_keyword, r)

ImportKeywords(keywords_list, category) ==
    \E r \in {import_keywords(keywords, keyword_categories, keywords_list, category)} :
        KeywordCall("import_keywords", "", category, r)

\* add_keyword and remove_keyword only
NextAddRemove ==
    \/ \E keyword \in Words, category \in CategoryArguments :
           AddKeyword(keyword, category)
    \/ \E keyword \in Words : RemoveKeyword(keyword)

NextKeywords ==
    \/ NextAddRemove
    \/ \E old_keyword \in Words, new_keyword \in Words :
           UpdateKeyword(old_keyword, new_keyword)
    \/ \E keywords_list \in ImportLists, category \in CategoryArguments :
           ImportKeywords(keywords_list, category)

----------------------------------------------------------------------------
(* Specifications: one per part of the program; the variables of the other *)
(* parts stay as they are.                                                 *)

IdleCoord ==
    /\ text = <<>> /\ coordinates = NoResult
    /\ vpoint = NoResult /\ vresult = NoResult
IdleCluster ==
    /\ points = <<>> /\ threshold_km = 12 * PointStep
    /\ centroids = NoResult /\ recentroids = NoResult
IdleZone ==
    /\ warning = Warning(1, "point", "w", << <<0, 0>> >>)
    /\ buffer_km = DefaultBuffer
    /\ vessel_pos = NoResult /\ threat = NoResult /\ prev_threat = NoResult
IdleRisk ==
    /\ vessel_data = [name |-> "V", lat |-> 0, lon |-> 0, speed_knots |-> 12,
                      draft_m |-> 0, type |-> "GENERAL", heading |-> 0]
    /\ warnings_data = <<>>
    /\ assessment = NoResult

IdleFleet ==
    /\ fleet_data = <<>> /\ fleet_assessment = NoResult
IdleLoop ==
    /\ loop_clusters = <<>> /\ loop_changed = FALSE /\ passes = 0 /\ pc = "done"
IdleStore ==
    /\ table = <<>> /\ db_call = NoResult /\ db_before = <<>> /\ db_result = NoResult
IdleScraper ==
    /\ send_mode = "batch" /\ listing = <<>> /\ new_warnings = <<>>
    /\ run_pc = "idle" /\ runs = 0 /\ requests_log = <<>>
    /\ accepted_ids = {} /\ due = {}
IdleKeywords ==
    /\ keywords = <<>> /\ keyword_categories = <<>>
    /\ kw_call = NoResult /\ kw_result = NoResult
IdleServices == IdleStore /\ IdleScraper /\ IdleKeywords
IdleRest == IdleFleet /\ IdleLoop /\ IdleServices

InitSpecCoord   == InitCoord /\ IdleCluster /\ IdleZone /\ IdleRisk /\ IdleRest
InitSpecCluster == IdleCoord /\ InitCluster /\ IdleZone /\ IdleRisk /\ IdleRest
InitSpecZone    == IdleCoord /\ IdleCluster /\ InitZone /\ IdleRisk /\ IdleRest
InitSpecRisk    == IdleCoord /\ IdleCluster /\ IdleZone /\ InitRisk /\ IdleRest
InitSpecFleet   == IdleCoord /\ IdleCluster /\ IdleZone /\ InitFleet /\ IdleLoop
                       /\ IdleServices
InitSpecLoop    == IdleCoord /\ InitLoop /\ IdleZone /\ IdleRisk /\ IdleFleet
                       /\ IdleServices
IdleCore        == IdleCoord /\ IdleCluster /\ IdleZone /\ IdleRisk /\ IdleFleet
                       /\ IdleLoop
InitSpecStore   == IdleCore /\ InitStore /\ IdleScraper /\ IdleKeywords
InitSpecScraper == IdleCore /\ InitStore /\ InitScraper /\ IdleKeywords
InitSpecKeywords == IdleCore /\ IdleStore /\ IdleScraper /\ InitKeywords

SpecCoord   == InitSpecCoord /\ [][NextCoord]_vars
SpecCluster == InitSpecCluster /\ [][NextCluster]_vars
SpecZone    == InitSpecZone /\ [][NextZone]_vars
SpecRisk    == InitSpecRisk /\ [][NextRisk]_vars
SpecFleet   == InitSpecFleet /\ [][NextFleet]_vars
SpecLoop    == InitSpecLoop /\ [][NextLoop]_vars
SpecStore   == InitSpecStore /\ [][NextStore]_vars
SpecScraper == InitSpecScraper /\ [][NextScraper]_vars
SpecKeywords == InitSpecKeywords /\ [][NextKeywords]_vars
SpecAddRemove == InitSpecKeywords /\ [][NextAddRemove]_vars

\* The function runs to its return: nothing but its own steps can hold a
\* step of the loop back (the program is single-threaded and synchronous).
SpecLoopFair == SpecLoop /\ WF_vars(NextLoop)

\* The whole program: any part may run.
Init == InitSpecCoord \/ InitSpecCluster \/ InitSpecZone \/ InitSpecRisk
            \/ InitSpecFleet \/ InitSpecLoop \/ InitSpecStore
            \/ InitSpecScraper \/ InitSpecKeywords
Next == NextCoord \/ NextCluster \/ NextZone \/ NextRisk \/ NextFleet \/ NextLoop
            \/ NextStore \/ NextScraper \/ NextKeywords
Spec == Init /\ [][Next]_vars

----------------------------------------------------------------------------
(* Properties                                                              *)

InWorldRange(pt) ==
    /\ -90000000 <= pt[1] /\ pt[1] <= 90000000
    /\ -180000000 <= pt[2] /\ pt[2] <= 180000000
NearZero(pt) == Abs(pt[1]) < 10000 /\ Abs(pt[2]) < 10000
InRegionalBox(pt) ==
    /\ -60000000 <= pt[1] /\ pt[1] <= 60000000
    /\ 60000000 <= pt[2] /\ pt[2] <= 180000000

PairwiseApart(cs, t) ==
    \A i, j \in 1..Len(cs) : i # j => haversine_distance(cs[i], cs[j]) >= t

\* The ladder of a point hazard as the specification states it.
LadderLevel(d, b) ==
    IF 4 * d < b THEN "CRITICAL"
    ELSE IF 2 * d < b THEN "HIGH"
    ELSE IF d < b THEN "MEDIUM"
    ELSE IF d < 5 * b THEN "LOW"
    ELSE "SAFE"
LadderCertainty(d, b) ==
    IF 4 * d < b THEN 95
    ELSE IF 2 * d < b THEN 90
    ELSE IF d < b THEN 85
    ELSE IF d < 2 * b THEN 70
    ELSE IF d < 5 * b THEN 50
    ELSE 0

Severity(level) ==
    CASE level = "CRITICAL" -> 4
      [] level = "HIGH"     -> 3
      [] level = "MEDIUM"   -> 2
      [] level = "LOW"      -> 1
      [] level = "SAFE"     -> 0

\* no rung of the ladder (0.25, 0.5, 1, 2, 5 times the buffer) lies between
\* the two distances
SameBand(d1, d2, b) ==
    \A m \in {1, 2, 4, 8, 20} : (4 * d1 < m * b) <=> (4 * d2 < m * b)

PointHazard(w) == w.coordinates # <<>> /\ (w.type = "point" \/ Len(w.coordinates) = 1)
PolygonHazard(w) == w.coordinates # <<>> /\ ~(w.type = "point" \/ Len(w.coordinates) = 1)

\* C1 (as stated): clustering the centroids again at the same threshold
\* returns the same centroids.
C1_Idempotent ==
    recentroids # NoResult => recentroids[1] = centroids[1]

\* C1 (amended): clustering the centroids again returns the same centroids
\* exactly when the centroids of the first call are pairwise at least the
\* threshold apart; otherwise the second call merges centroids and returns
\* fewer points.
C1_IdempotentIffSeparated ==
    recentroids # NoResult =>
        /\ (recentroids[1] = centroids[1]) <=> PairwiseApart(centroids[1], threshold_km)
        /\ Len(recentroids[1]) <= Len(centroids[1])
        /\ ~PairwiseApart(centroids[1], threshold_km)
               => Len(recentroids[1]) < Len(centroids[1])

\* C1 witness: the first call merged two of three points, and the second
\* call left its two centroids as they were.
C1_Witness ==
    /\ recentroids # NoResult
    /\ Len(points) = 3 /\ Len(centroids[1]) = 2
    /\ recentroids[1] = centroids[1]

\* C2 (as stated): an accepted point lies in [-90, 90] x [-180, 180] and is
\* not the near-(0,0) sentinel, and so does every extracted coordinate;
\* (0, 0), (91, 0) and (0, 181) are rejected.
C2_AcceptedInWorldRange ==
    /\ vresult = Some(TRUE) => InWorldRange(vpoint) /\ ~NearZero(vpoint)
    /\ coordinates # NoResult =>
           \A k \in 1..Len(coordinates[1]) :
               InWorldRange(coordinates[1][k]) /\ ~NearZero(coordinates[1][k])
    /\ vresult # NoResult
         /\ vpoint \in {<<0, 0>>, <<91000000, 0>>, <<0, 181000000>>}
           => vresult = Some(FALSE)

\* C3 (as stated): with no box configured the validator accepts every point
\* of the world range that is not within 0.01 degrees of (0, 0).
C3_NoBoxByDefault ==
    vresult # NoResult /\ InWorldRange(vpoint) /\ ~NearZero(vpoint)
        => vresult = Some(TRUE)

\* C3 (amended): the regional box is built in and always applied: every
\* point with latitude in [-60, 60] and longitude in [60, 180] is accepted
\* (for example (25.1234, 121.5678)), every point with a longitude strictly
\* between -180 and 60 is rejected, and so is every point with a longitude
\* of 0 or more and a latitude outside [-60, 60].
C3_BoxAlwaysApplied ==
    vresult # NoResult =>
        /\ InRegionalBox(vpoint) => vresult = Some(TRUE)
        /\ -180000000 < vpoint[2] /\ vpoint[2] < 60000000 => vresult = Some(FALSE)
        /\ vpoint[2] >= 0 /\ ~(-60000000 <= vpoint[1] /\ vpoint[1] <= 60000000)
              => vresult = Some(FALSE)
        /\ vpoint = <<25123400, 121567800>> => vresult = Some(TRUE)

\* C3 witness: a point of the world range, away from (0, 0), outside the box,
\* was rejected.
C3_Witness ==
    /\ vresult = Some(FALSE)
    /\ InWorldRange(vpoint) /\ ~NearZero(vpoint)

\* C4 (as stated): a hazard with one or two vertices, whatever its declared
\* type, is evaluated by the point ladder on the distance to its first vertex.
C4_FewVerticesAsPoint ==
    threat # NoResult /\ Len(warning.coordinates) \in {1, 2} =>
        LET d == haversine_distance(vessel_pos, warning.coordinates[1])
        IN  /\ threat[1].threat_level = LadderLevel(d, buffer_km)
            /\ threat[1].certainty = LadderCertainty(d, buffer_km)
            /\ threat[1].distance_km = d
            /\ threat[1].is_in_zone <=> 2 * d < buffer_km

\* C5 (as stated): for a polygon hazard of three or more vertices whose
\* geometry cannot be built, so that the containment and the distance
\* computation fail, the call returns SAFE with certainty 0.
C5_FailedGeometryZeroCertainty ==
    threat # NoResult /\ PolygonHazard(warning)
                      /\ Len(warning.coordinates) >= 3
                      /\ PolygonRaises(warning.coordinates) =>
        /\ threat[1].threat_level = "SAFE"
        /\ threat[1].certainty = 0

\* C6: for a point hazard the level, certainty and is_in_zone are those of
\* the ladder on the distance d from the vessel to the hazard: d < 0.25 b
\* CRITICAL (0.95); d < 0.5 b HIGH (0.9); d < b MEDIUM (0.85); d < 2 b LOW
\* (0.7); d < 5 b LOW (0.5); otherwise SAFE (0); is_in_zone iff d < 0.5 b.
C6_PointLadder ==
    threat # NoResult /\ PointHazard(warning) =>
        LET d == haversine_distance(vessel_pos, warning.coordinates[1])
        IN  /\ threat[1].threat_level = LadderLevel(d, buffer_km)
            /\ threat[1].certainty = LadderCertainty(d, buffer_km)
            /\ threat[1].is_in_zone <=> 2 * d < buffer_km

\* C6 witness: a vessel between 2 and 5 buffers from a point hazard is LOW
\* with certainty 0.5.
C6_Witness ==
    /\ threat # NoResult /\ PointHazard(warning)
    /\ threat[1].threat_level = "LOW" /\ threat[1].certainty = 50
    /\ threat[1].distance_km >= 2 * buffer_km

\* C7 (as stated): for a fixed hazard and buffer, of two calls the one with
\* the smaller or equal distance has the more or equally severe level, and
\* the levels differ only if a rung of the ladder lies between the distances.
C7_MonotoneByDistance ==
    threat # NoResult /\ prev_threat # NoResult =>
        LET a == prev_threat[1]
            b == threat[1]
        IN  /\ a.distance_km <= b.distance_km
                  => Severity(a.threat_level) >= Severity(b.threat_level)
            /\ b.distance_km <= a.distance_km
                  => Severity(b.threat_level) >= Severity(a.threat_level)
            /\ SameBand(a.distance_km, b.distance_km, buffer_km)
                  => a.threat_level = b.threat_level

\* C7 (amended): for a fixed hazard and buffer, of two calls the one with the
\* strictly smaller distance has the more or equally severe level; the
\* levels differ only if a rung of the ladder lies between the distances or,
\* for a polygon hazard, if one vessel is inside the polygon (CRITICAL, at
\* distance 0) and the other is not.
C7_MonotoneOutsidePolygon ==
    threat # NoResult /\ prev_threat # NoResult =>
        LET a == prev_threat[1]
            b == threat[1]
            inside(x) == PolygonHazard(warning) /\ x.is_in_zone
        IN  /\ a.distance_km < b.distance_km
                  => Severity(a.threat_level) >= Severity(b.threat_level)
            /\ b.distance_km < a.distance_km
                  => Severity(b.threat_level) >= Severity(a.threat_level)
            /\ SameBand(a.distance_km, b.distance_km, buffer_km)
                 /\ (inside(a) <=> inside(b))
                  => a.threat_level = b.threat_level

\* C7 witness: two calls on a polygon hazard, one vessel inside and one
\* outside within a quarter of the buffer, with different levels.
C7_Witness ==
    /\ threat # NoResult /\ prev_threat # NoResult
    /\ PolygonHazard(warning)
    /\ prev_threat[1].is_in_zone /\ prev_threat[1].threat_level = "CRITICAL"
    /\ ~threat[1].is_in_zone /\ threat[1].threat_level = "HIGH"
    /\ 4 * threat[1].distance_km < buffer_km

\* C8 (as stated): for a polygon hazard a vessel inside is CRITICAL with
\* certainty 1.0; a vessel outside gets the level of the point ladder on its
\* distance, with certainties HIGH 0.95, MEDIUM 0.9, LOW 0.7, SAFE 0.5.
C8_PolygonSameLadder ==
    threat # NoResult /\ PolygonHazard(warning) =>
        LET t == threat[1]
        IN  IF t.is_in_zone
            THEN t.threat_level = "CRITICAL" /\ t.certainty = 100
            ELSE /\ t.threat_level = LadderLevel(t.distance_km, buffer_km)
                 /\ t.certainty = (CASE t.threat_level = "HIGH"   -> 95
                                     [] t.threat_level = "MEDIUM" -> 90
                                     [] t.threat_level = "LOW"    -> 70
                                     [] t.threat_level = "SAFE"   -> 50
                                     [] OTHER                     -> -1)

\* C8 (amended): for a polygon hazard a vessel inside is CRITICAL with
\* certainty 1.0; a vessel outside is HIGH (0.95) below 0.5 b, MEDIUM (0.9)
\* below b, LOW (0.7) below 2 b and SAFE (0.5) from 2 b on: outside the
\* polygon there is no CRITICAL band and no LOW band between 2 b and 5 b.
C8_PolygonLadder ==
    threat # NoResult /\ PolygonHazard(warning) =>
        LET t == threat[1]
            d == t.distance_km
        IN  /\ t.is_in_zone => t.threat_level = "CRITICAL" /\ t.certainty = 100
            /\ ~t.is_in_zone /\ 2 * d < buffer_km
                  => t.threat_level = "HIGH" /\ t.certainty = 95
            /\ ~t.is_in_zone /\ 2 * d >= buffer_km /\ d < buffer_km
                  => t.threat_level = "MEDIUM" /\ t.certainty = 90
            /\ ~t.is_in_zone /\ d >= buffer_km /\ d < 2 * buffer_km
                  => t.threat_level = "LOW" /\ t.certainty = 70
            /\ ~t.is_in_zone /\ d >= 2 * buffer_km
                  => t.threat_level = "SAFE" /\ t.certainty = 50

\* C8 witness: a vessel outside a sound polygon, between 2 and 5 buffers
\* from it, is SAFE with certainty 0.5.
C8_Witness ==
    /\ threat # NoResult /\ PolygonHazard(warning)
    /\ ~PolygonRaises(warning.coordinates)
    /\ threat[1].distance_km >= 2 * buffer_km
    /\ threat[1].distance_km < 5 * buffer_km
    /\ threat[1].threat_level = "SAFE" /\ threat[1].certainty = 50

\* C9 (as stated): a coordinate written with a southern latitude marker (S,
\* or the Chinese character for south) is extracted with a negative latitude,
\* one written with a western longitude marker with a negative longitude.
C9_HemisphereSign ==
    coordinates # NoResult /\ Len(text) = 1 =>
        \A k \in 1..Len(coordinates[1]) :
            /\ PhraseLatMarker(text[1]) \in {"S", "zh_S"} => coordinates[1][k][1] < 0
            /\ PhraseLonMarker(text[1]) \in {"W", "zh_W"} => coordinates[1][k][2] < 0

\* The warning of warnings_data an entry of nearby_warnings was made from.
EntryWarning(e) == WarningById(e.warning_id)

\* base * vessel_type_factor * draft_factor * hazard_type_multiplier *
\* distance_penalty + approach_bonus for an entry, in 1/4800 of a point
EntryRaw(e) ==
    LET w == EntryWarning(e)
        d == Abs(vessel_data.heading - e.bearing_to_warning)
        diff == IF d > 180 THEN 360 - d ELSE d
    IN  (threat_scores(e.threat_level) \div 25)
            * type_factor(vessel_data.type)
            * draft_factor(vessel_data.draft_m)
            * type_multiplier(w.title)
            * (IF e.distance_km < 80 THEN 80 - e.distance_km ELSE 0)
        + 400 * (180 - diff)

\* C10 (as stated): every per-hazard final_score is the weighted score
\* clipped to [0, 100] and then scaled by the certainty, so it lies in
\* [0, 100].
C10_ScoreClipped ==
    assessment # NoResult =>
        \A k \in 1..Len(assessment[1].nearby_warnings) :
            LET e == assessment[1].nearby_warnings[k]
                clipped == Min(480000, Max(0, EntryRaw(e)))
            IN  /\ e.final_score = RoundDiv(clipped * (e.certainty \div 5), 960)
                /\ 0 <= e.final_score /\ e.final_score <= 10000

\* C10 (amended): every per-hazard final_score is the weighted score scaled
\* by the certainty and rounded to 2 decimals, with no clipping: it is never
\* negative, and it exceeds 100 when the weighted score times the certainty
\* does.
C10_ScoreUnclipped ==
    assessment # NoResult =>
        \A k \in 1..Len(assessment[1].nearby_warnings) :
            LET e == assessment[1].nearby_warnings[k]
            IN  /\ e.threat_level # "SAFE"
                /\ e.final_score = RoundDiv(EntryRaw(e) * (e.certainty \div 5), 960)
                /\ e.final_score >= 0

\* C10 witness: a per-hazard score above 100.
C10_Witness ==
    /\ assessment # NoResult
    /\ \E k \in 1..Len(assessment[1].nearby_warnings) :
           assessment[1].nearby_warnings[k].final_score > 10000

\* The hazards of warnings_data that are not SAFE for the vessel, and the
\* unrounded score of each (in 1/96000 of a point; 0 for a SAFE hazard).
NonSafe(k) ==
    detect_zone_threat(<<vessel_data.lat, vessel_data.lon>>, warnings_data[k],
                       DefaultBuffer).threat_level # "SAFE"
NonSafeCount == Cardinality({k \in 1..Len(warnings_data) : NonSafe(k)})
NonSafeSum ==
    SumSeq([k \in 1..Len(warnings_data) |->
               IF NonSafe(k) THEN ThreatEntry(vessel_data, warnings_data[k]).exact_score
               ELSE 0])

\* C11 (as stated): overall_risk_score is the mean of the per-hazard scores
\* of the hazards that are not SAFE, 0 when there is none, and in [0, 100].
C11_OverallIsMean ==
    assessment # NoResult =>
        /\ assessment[1].overall_risk_score =
               (IF NonSafeCount = 0 THEN 0
                ELSE RoundDiv(NonSafeSum, 960 * NonSafeCount))
        /\ 0 <= assessment[1].overall_risk_score
        /\ assessment[1].overall_risk_score <= 10000

\* C11 (amended): overall_risk_score is the mean of the (unclipped)
\* per-hazard scores of the hazards that are not SAFE, capped at 100 and
\* rounded to 2 decimals; it is 0 when there is no such hazard and always
\* lies in [0, 100].
C11_OverallIsCappedMean ==
    assessment # NoResult =>
        /\ assessment[1].warning_count = NonSafeCount
        /\ assessment[1].overall_risk_score =
               (IF NonSafeCount = 0 THEN 0
                ELSE Min(10000, RoundDiv(NonSafeSum, 960 * NonSafeCount)))
        /\ 0 <= assessment[1].overall_risk_score
        /\ assessment[1].overall_risk_score <= 10000

\* C11 witness: two hazards that are not SAFE, one scoring below 100; the
\* mean of the two scores is above 100 and the overall score is 100.
C11_Witness ==
    /\ assessment # NoResult
    /\ NonSafeCount = 2
    /\ assessment[1].nearby_warnings[2].final_score < 10000
    /\ NonSafeSum > 2 * 100 * 96000
    /\ assessment[1].overall_risk_score = 10000

\* The band of a score given in hundredths of a point.
Band(score) ==
    IF score >= 8500 THEN "CRITICAL"
    ELSE IF score >= 6500 THEN "HIGH"
    ELSE IF score >= 4500 THEN "MEDIUM"
    ELSE IF score >= 2500 THEN "LOW"
    ELSE "SAFE"

\* C12 (as stated): the overall threat level is the band of the returned
\* overall_risk_score (>= 85 CRITICAL, >= 65 HIGH, >= 45 MEDIUM, >= 25 LOW,
\* otherwise SAFE), and action_required is true exactly when that level is
\* CRITICAL or HIGH.
C12_BandsOfReportedScore ==
    assessment # NoResult =>
        /\ assessment[1].threat_level = Band(assessment[1].overall_risk_score)
        /\ assessment[1].action_required
               <=> assessment[1].threat_level \in {"CRITICAL", "HIGH"}

\* The scenario of C13: one point hazard, a tanker 2 km (8 grid units) from
\* it whose heading is the bearing to the hazard.
TankerScenario ==
    /\ assessment # NoResult
    /\ Len(warnings_data) = 1
    /\ warnings_data[1].type = "point" /\ Len(warnings_data[1].coordinates) = 1
    /\ vessel_data.type = "TANKER"
    /\ haversine_distance(<<vessel_data.lat, vessel_data.lon>>,
                          warnings_data[1].coordinates[1]) = 8
    /\ vessel_data.heading =
           calculate_bearing(<<vessel_data.lat, vessel_data.lon>>,
                             warnings_data[1].coordinates[1])

\* C13: a tanker 2 km from a single point hazard (buffer 5 km), heading
\* straight at it, gets an overall score of 85 or more and action_required,
\* whatever its draft and the hazard's title.
C13_TankerHeadingAtHazard ==
    TankerScenario =>
        /\ assessment[1].overall_risk_score >= 8500
        /\ assessment[1].action_required

\* C13 witness: the scenario with the lowest score: no draft and a title
\* with no keyword; the overall score is 92.48.
C13_Witness ==
    /\ TankerScenario
    /\ vessel_data.draft_m = 0
    /\ warnings_data[1].title = "survey"
    /\ assessment[1].overall_risk_score = 9248

\* C14: a text holding the one pair "18-17.37N 109-22.17E" is extracted to
\* exactly one point, (18.2895, 109.3695), that is deg + min/60 of each half;
\* likewise "35-23.50N 119-35.92E" gives only (35.391667, 119.598667): the
\* grammars that run after the first add no second point.
C14_DegreeMinuteDecimalEndToEnd ==
    coordinates # NoResult =>
        /\ text = <<"dm_decimal_e2e">>
               => coordinates[1] = << <<18289500, 109369500>> >>
        /\ text = <<"dm_decimal">>
               => coordinates[1] = << <<35391667, 119598667>> >>

\* C14 witness: the text "18-17.37N 109-22.17E" was extracted to one point.
C14_Witness ==
    /\ coordinates # NoResult
    /\ text = <<"dm_decimal_e2e">>
    /\ Len(coordinates[1]) = 1

\* The level assess_vessel_threat gives the k-th vessel of the fleet.
FleetLevel(k) == assess_vessel_threat(fleet_data[k], warnings_data).threat_level

\* C15: the threat_distribution counts sum to total_vessels and each equals
\* the number of vessels assessed at that level; critical_alerts holds
\* exactly the vessels whose level is CRITICAL, highest overall score first.
C15_FleetDistribution ==
    fleet_assessment # NoResult =>
        LET r == fleet_assessment[1]
            alerts == r.critical_alerts
            criticals == {k \in 1..Len(fleet_data) : FleetLevel(k) = "CRITICAL"}
        IN  /\ r.total_vessels = Len(fleet_data)
            /\ r.threat_distribution["CRITICAL"] + r.threat_distribution["HIGH"]
                 + r.threat_distribution["MEDIUM"] + r.threat_distribution["LOW"]
                 + r.threat_distribution["SAFE"] = r.total_vessels
            /\ \A l \in Levels :
                   r.threat_distribution[l] =
                       Cardinality({k \in 1..Len(fleet_data) : FleetLevel(k) = l})
            /\ Len(alerts) = Cardinality(criticals)
            /\ {alerts[i].vessel : i \in 1..Len(alerts)}
                   = {fleet_data[k].name : k \in criticals}
            /\ \A i \in 1..Len(alerts) - 1 : alerts[i].score >= alerts[i + 1].score

\* C15 witness: a fleet of three with two CRITICAL vessels; the second of
\* them has the higher score and is listed first.
C15_Witness ==
    /\ fleet_assessment # NoResult
    /\ Len(fleet_data) = 3
    /\ Len(fleet_assessment[1].critical_alerts) = 2
    /\ fleet_assessment[1].critical_alerts[1].vessel = "C"
    /\ fleet_assessment[1].critical_alerts[2].vessel = "A"
    /\ fleet_assessment[1].critical_alerts[1].score
           > fleet_assessment[1].critical_alerts[2].score

\* The reported score of the k-th hazard of warnings_data.
HazardScore(k) == ThreatEntry(vessel_data, warnings_data[k]).final_score

\* C16: nearby_warnings is ordered by non-increasing final_score, holds the
\* entries of min(5, n) of the n hazards that are not SAFE, every hazard
\* with a higher score than the last listed one is listed, and warning_count
\* is n.
C16_NearbyWarningsRanked ==
    assessment # NoResult =>
        LET nearby == assessment[1].nearby_warnings
            n == Len(nearby)
        IN  /\ \A i \in 1..n - 1 : nearby[i].final_score >= nearby[i + 1].final_score
            /\ n <= 5
            /\ n = Min(5, NonSafeCount)
            /\ assessment[1].warning_count = NonSafeCount
            /\ \A i \in 1..n : \E k \in 1..Len(warnings_data) :
                   NonSafe(k) /\ nearby[i] = ThreatEntry(vessel_data, warnings_data[k])
            /\ n > 0 =>
                   Cardinality({k \in 1..Len(warnings_data) :
                                   NonSafe(k) /\ HazardScore(k) > nearby[n].final_score})
                     = Cardinality({i \in 1..n :
                                       nearby[i].final_score > nearby[n].final_score})

\* C16 witness: more than five hazards are not SAFE, five are listed, the
\* first listed is not the first of warnings_data, and an omitted hazard has
\* a lower score than the last listed one.
C16_Witness ==
    /\ assessment # NoResult
    /\ NonSafeCount > 5
    /\ Len(assessment[1].nearby_warnings) = 5
    /\ assessment[1].nearby_warnings[1].warning_id # warnings_data[1].id
    /\ \E k \in 1..Len(warnings_data) :
           NonSafe(k) /\ HazardScore(k) < assessment[1].nearby_warnings[5].final_score

C18_PointInPolygon ==
    threat # NoResult /\ PolygonHazard(warning) =>
        /\ warning.coordinates = Square =>
              /\ (0 < vessel_pos[1] /\ vessel_pos[1] < 40
                    /\ 0 < vessel_pos[2] /\ vessel_pos[2] < 40)
                     => threat[1].is_in_zone
              /\ (vessel_pos[1] < 0 \/ vessel_pos[1] > 40
                    \/ vessel_pos[2] < 0 \/ vessel_pos[2] > 40)
                     => ~threat[1].is_in_zone
              /\ vessel_pos = <<20, 20>> => threat[1].is_in_zone
              /\ vessel_pos = <<80, 80>> => ~threat[1].is_in_zone
        /\ PolygonRaises(warning.coordinates) => ~threat[1].is_in_zone

\* C18 witness: the centre of the square was found inside after the point
\* (2, 2) was found outside.
C18_Witness ==
    /\ threat # NoResult /\ prev_threat # NoResult
    /\ PolygonHazard(warning) /\ warning.coordinates = Square
    /\ vessel_pos = <<20, 20>>
    /\ threat[1].is_in_zone /\ ~prev_threat[1].is_in_zone
    /\ prev_threat[1].distance_km > 40

Members(cluster) == {cluster[k] : k \in 1..Len(cluster)}

\* the clusters the while loop of cluster_nearby_coordinates ends with
FinalClusters(coords, t) ==
    ClusterLoop([k \in 1..Len(coords) |-> <<coords[k]>>], TRUE, t)

Closer(p, q, t) == haversine_distance(p, q) < t

\* the points of P that a chain of points of P, each closer than t to the
\* next, connects to a point of S
RECURSIVE ChainConnected(_, _, _)
ChainConnected(S, P, t) ==
    LET N == S \cup {q \in P : \E p \in S : Closer(p, q, t)}
    IN  IF N = S THEN S ELSE ChainConnected(N, P, t)

Reorderings(coords) ==
    {[k \in 1..Len(coords) |-> coords[f[k]]] :
        f \in {g \in [1..Len(coords) -> 1..Len(coords)] :
                  \A a, b \in 1..Len(coords) : a # b => g[a] # g[b]}}

\* the clusters are the single-linkage components of the input, and the
\* returned centroids are theirs
SingleLinkage(coords, t, result) ==
    LET cl == FinalClusters(coords, t)
    IN  /\ Len(FlattenSeq(cl)) = Len(coords)
        /\ Members(FlattenSeq(cl)) = Members(coords)
        /\ \A k \in 1..Len(cl) :
               Members(cl[k]) = ChainConnected({cl[k][1]}, Members(coords), t)
        /\ \A j, k \in 1..Len(cl) : j # k =>
               \A p \in Members(cl[j]), q \in Members(cl[k]) : ~Closer(p, q, t)
        /\ Len(result) <= Len(coords)
        /\ Len(coords) >= 2 => result = [k \in 1..Len(cl) |-> Centroid(cl[k])]

\* a centroid is the mean of its cluster up to the rounding of the float sum
\* and quotient
MeanUpToRounding(cluster, c) ==
    \A d \in 1..2 :
        LET sum == SumSeq([k \in 1..Len(cluster) |-> cluster[k][d]])
        IN  Abs(c[d] * Len(cluster) - sum)
                <= Len(cluster) * FloatQuantum(2 * Abs(sum), 1)

\* C19 (as stated): the final clusters are the single-linkage components of
\* the input points, there are no more centroids than points, and the set
\* of centroids is the same for every order of the input points.
C19_SingleLinkageComponents ==
    centroids # NoResult =>
        /\ SingleLinkage(points, threshold_km, centroids[1])
        /\ \A r \in Reorderings(points) :
               Members(cluster_nearby_coordinates(r, threshold_km))
                   = Members(centroids[1])

\* C19 (amended): the final clusters are the single-linkage components of
\* the input points, there are no more centroids than points, the partition
\* of the points into clusters is the same for every order of the input,
\* and every centroid, in every order, is the mean of its cluster up to
\* floating-point rounding.
C19_ComponentsInEveryOrder ==
    centroids # NoResult /\ recentroids = NoResult =>
        /\ SingleLinkage(points, threshold_km, centroids[1])
        /\ LET parts == {Members(c) : c \in Members(FinalClusters(points, threshold_km))}
           IN  \A r \in Reorderings(points) :
                   LET cl == FinalClusters(r, threshold_km)
                   IN  /\ {Members(cl[k]) : k \in 1..Len(cl)} = parts
                       /\ Len(cl) = Len(centroids[1])
                       /\ \A k \in 1..Len(cl) :
                              MeanUpToRounding(cl[k], Centroid(cl[k]))

\* C19 witness: three points were clustered into one although the first two
\* are not closer than the threshold to each other: the third links them.
C19_Witness ==
    /\ centroids # NoResult
    /\ Len(points) = 3 /\ Len(centroids[1]) = 1
    /\ ~Closer(points[1], points[2], threshold_km)
    /\ Closer(points[1], points[3], threshold_km)
    /\ Closer(points[3], points[2], threshold_km)

\* C20: clustering terminates; it makes at most as many passes as there are
\* input points; a pass that merges leaves strictly fewer clusters and a
\* pass that does not leaves them as they were; a pass runs only while the
\* pass before merged and more than one cluster remains; and the centroids
\* returned are those of the clusters the loop stopped with.
C20_Terminates ==
    /\ <>(pc = "done")
    /\ [](passes <= Len(points))
    /\ [](pc = "done" /\ Len(points) > 1 =>
             /\ ~loop_changed \/ Len(loop_clusters) = 1
             /\ centroids = Some(cluster_nearby_coordinates(points, threshold_km)))
    /\ [][passes' # passes =>
             /\ passes' = passes + 1
             /\ loop_changed /\ Len(loop_clusters) > 1
             /\ loop_changed' => Len(loop_clusters') < Len(loop_clusters)
             /\ ~loop_changed' => loop_clusters' = loop_clusters]_vars

\* C20 witness: three points took two merging passes to become a single
\* cluster, and the function returned its centroid.
C20_Witness ==
    /\ pc = "done"
    /\ Len(points) = 3 /\ passes = 2
    /\ loop_changed /\ Len(loop_clusters) = 1
    /\ centroids # NoResult /\ Len(centroids[1]) = 1

\* base * vessel_type_factor * draft_factor * hazard_type_multiplier *
\* distance_penalty for an entry, in 1/4800 of a point
EntryAdjusted(e) ==
    (threat_scores(e.threat_level) \div 25)
        * type_factor(vessel_data.type)
        * draft_factor(vessel_data.draft_m)
        * type_multiplier(EntryWarning(e).title)
        * (IF e.distance_km < 80 THEN 80 - e.distance_km ELSE 0)

PlainDifference(e) == Abs(vessel_data.heading - e.bearing_to_warning)
CircularDifference(e) ==
    IF PlainDifference(e) > 180 THEN 360 - PlainDifference(e) ELSE PlainDifference(e)

\* 0.3 * max(0, 1 - diff / 180) * 50, in 1/4800 of a point
BonusOf(diff) == 400 * Max(0, 180 - diff)

\* C21 (as stated): the approach bonus that enters a hazard's score is
\* 0.3 * max(0, 1 - |heading - bearing| / 180) * 50 with the plain absolute
\* difference of the two angles; it lies in [0, 15] and is 15 when the
\* heading equals the bearing.
C21_BonusOfPlainDifference ==
    assessment # NoResult =>
        \A k \in 1..Len(assessment[1].nearby_warnings) :
            LET e == assessment[1].nearby_warnings[k]
                bonus == BonusOf(PlainDifference(e))
            IN  /\ e.final_score
                     = RoundDiv((EntryAdjusted(e) + bonus) * (e.certainty \div 5), 960)
                /\ 0 <= bonus /\ bonus <= 15 * 4800
                /\ vessel_data.heading = e.bearing_to_warning => bonus = 15 * 4800

\* C21 (amended): the difference is the angle between the two directions,
\* min(|heading - bearing|, 360 - |heading - bearing|), which is at most
\* 180: the bonus lies in [0, 15], is 15 when the heading equals the
\* bearing and 0 only when the heading is opposite to it.
C21_BonusOfCircularDifference ==
    assessment # NoResult =>
        \A k \in 1..Len(assessment[1].nearby_warnings) :
            LET e == assessment[1].nearby_warnings[k]
                bonus == BonusOf(CircularDifference(e))
            IN  /\ e.final_score
                     = RoundDiv((EntryAdjusted(e) + bonus) * (e.certainty \div 5), 960)
                /\ 0 <= bonus /\ bonus <= 15 * 4800
                /\ vessel_data.heading = e.bearing_to_warning => bonus = 15 * 4800
                /\ bonus = 0 <=> CircularDifference(e) = 180

\* C21 witness: a hazard dead ahead to the north of a vessel heading west
\* (heading 270, bearing 0): the plain difference is 270, the bonus is 7.5.
C21_Witness ==
    /\ assessment # NoResult
    /\ \E k \in 1..Len(assessment[1].nearby_warnings) :
           LET e == assessment[1].nearby_warnings[k]
           IN  /\ vessel_data.heading = 270 /\ e.bearing_to_warning = 0
               /\ e.final_score
                    = RoundDiv((EntryAdjusted(e) + 36000) * (e.certainty \div 5), 960)
               /\ e.final_score
                    # RoundDiv(EntryAdjusted(e) * (e.certainty \div 5), 960)

\* The accepted coordinates of the matches of grammar g in the text, one per
\* match, in text order.
RECURSIVE MatchCoordinates(_)
MatchCoordinates(matches) ==
    IF matches = <<>> THEN <<>>
    ELSE LET m   == Head(matches)
             lat == convert_to_decimal(m.lat_deg, m.lat_min, m.lat_sec, m.lat_dir)
             lon == convert_to_decimal(m.lon_deg, m.lon_min, m.lon_sec, m.lon_dir)
         IN  (IF validate_coordinate(lat, lon) THEN << <<lat, lon>> >> ELSE <<>>)
                 \o MatchCoordinates(Tail(matches))

\* grammar 1's matches, then grammar 2's, ... then grammar 5's
AllMatchCoordinates(t) ==
    MatchCoordinates(FindAll(1, t)) \o MatchCoordinates(FindAll(2, t))
        \o MatchCoordinates(FindAll(3, t)) \o MatchCoordinates(FindAll(4, t))
        \o MatchCoordinates(FindAll(5, t))

\* a sequence without the repetitions of its earlier elements
RECURSIVE FirstOccurrences(_)
FirstOccurrences(s) ==
    IF s = <<>> THEN <<>>
    ELSE LET front == FirstOccurrences(SubSeq(s, 1, Len(s) - 1))
         IN  IF SeqContains(front, s[Len(s)]) THEN front ELSE Append(front, s[Len(s)])

\* C22 (as stated): the output lists the accepted matches of grammar 1, then
\* of grammar 2, ... then of grammar 5, each in text order, one entry per
\* match: duplicates stay.
C22_OnePerMatch ==
    coordinates # NoResult => coordinates[1] = AllMatchCoordinates(text)

\* C22 (amended): the output lists the accepted matches in that order, but a
\* match whose coordinate pair is already in the output is skipped: every
\* pair appears once, at the place of its first match.
C22_FirstMatchOnly ==
    coordinates # NoResult =>
        /\ coordinates[1] = FirstOccurrences(AllMatchCoordinates(text))
        /\ \A i, j \in 1..Len(coordinates[1]) :
               i # j => coordinates[1][i] # coordinates[1][j]

\* C22 witness: a text with a degree-minute-second pair followed by a
\* degree-minute pair.  Grammar 1 matches the second pair, grammar 2 the
\* first, grammar 3 the second again: the output is the second pair, then
\* the first, and the third match is skipped.
C22_Witness ==
    /\ coordinates # NoResult
    /\ text = <<"dms", "dm">>
    /\ Len(AllMatchCoordinates(text)) = 3
    /\ coordinates[1] = << <<25500000, 121333333>>, <<25504167, 121341667>> >>

----------------------------------------------------------------------------
(* Claims about DatabaseManager                                            *)

\* the last call was save_warning / mark_as_notified
SavedLast == db_call # NoResult /\ db_call[1].op = "save_warning"
MarkedLast == db_call # NoResult /\ db_call[1].op = "mark_as_notified"

\* rows of tbl with the key of the last save_warning call
RowsOfKey(tbl) ==
    {k \in 1..Len(tbl) : SameKey(tbl[k], db_call[1].data, db_call[1].source_type)}

\* a stored coordinates value with at least one coordinate
StoredHasCoordinates(v) == v.kind = "str" /\ v.text \notin {"", "[]"}

\* the last call was save_warning for a warning already stored, and passed at
\* least one coordinate
ResavedWithCoordinates ==
    /\ SavedLast
    /\ db_result[1][1] = FALSE
    /\ db_call[1].data.coordinates.kind = "list"
    /\ db_call[1].data.coordinates.items # <<>>

\* C24: save_warning for a warning already stored, called with coordinates:
\* when the stored row has none (NULL, '' or '[]') its coordinates become the
\* new ones, when it has at least one they are left as they were.
C24_CoordinatesFilledWhenNone ==
    ResavedWithCoordinates =>
        \A k \in RowsOfKey(db_before) :
            table[k].coordinates =
                IF StoredHasCoordinates(db_before[k].coordinates)
                    THEN db_before[k].coordinates
                    ELSE PyStr(json_dumps(db_call[1].data.coordinates.items))

\* C25: mark_as_notified returns True exactly when it changed a warning from
\* not notified to notified.
C25_TrueOnlyWhenChanged ==
    MarkedLast =>
        (db_result[1][1] = TRUE <=>
            \E k \in 1..Len(db_before) :
                /\ db_before[k].id = db_call[1].warning_id
                /\ db_before[k].is_notified = 0
                /\ table[k].is_notified = 1)

\* the key fields of the last save_warning call are not NULL
KeyNotNull == db_call[1].data.publish_time.kind = "str"

----------------------------------------------------------------------------
(* Claims about the scraper's notifications                                *)

\* the run has ended, by returning or in the except branch of run()
RunEnded == run_pc \in {"done", "failed"}

NewWarningIds == {new_warnings[n] : n \in 1..Len(new_warnings)}
AttemptedIds == UNION {requests_log[n].ids : n \in 1..Len(requests_log)}

\* C23: in batch mode a run that inserted at least one new warning sends one
\* batch notification holding exactly the warnings inserted in that run, and
\* when the webhook accepts it every one of them is marked is_notified = 1.
C23_BatchSentAndMarked ==
    (send_mode = "batch" /\ RunEnded /\ new_warnings # <<>>) =>
        /\ Len(requests_log) = 1
        /\ requests_log[1].ids = NewWarningIds
        /\ requests_log[1].outcome = "accepted" =>
               \A id \in NewWarningIds : table[id].is_notified = 1

\* C27: a warning is marked is_notified = 1 only when a request holding it
\* was accepted by the webhook, and no warning of a request that failed or
\* raised is marked.
C27_MarkedOnlyWhenAccepted ==
    /\ \A k \in 1..Len(table) :
           table[k].is_notified = 1 => table[k].id \in accepted_ids
    /\ \A n \in 1..Len(requests_log) :
           requests_log[n].outcome # "accepted" =>
               \A id \in requests_log[n].ids : table[id].is_notified = 0

\* one run in individual mode: the first warning accepted and marked, the
\* second refused and left unmarked
C27_Witness ==
    /\ send_mode = "individual"
    /\ Len(requests_log) = 2
    /\ requests_log[1].outcome = "accepted" /\ requests_log[2].outcome # "accepted"
    /\ \A id \in requests_log[1].ids : table[id].is_notified = 1
    /\ \A id \in requests_log[2].ids : table[id].is_notified = 0

\* C28 (as stated): a stored warning with is_notified = 0 that a later run
\* finds still published is included in a notification attempt of that run.
C28_UnnotifiedRetried ==
    RunEnded => due \subseteq AttemptedIds

\* C28 (amended): a run attempts to notify only warnings it inserted itself;
\* a warning stored unnotified before the run is in none of its attempts and
\* stays is_notified = 0, even when the run finds it still published.
C28_AttemptedOnlyWhenInserted ==
    /\ AttemptedIds \subseteq NewWarningIds
    /\ AttemptedIds \cap due = {}
    /\ run_pc # "idle" => \A id \in due : table[id].is_notified = 0

\* a run in individual mode ended that listed a warning whose notification
\* had failed in an earlier run, and inserted and notified another
C28_Witness ==
    /\ send_mode = "individual"
    /\ RunEnded
    /\ due # {}
    /\ AttemptedIds # {}

----------------------------------------------------------------------------
(* Claims about KeywordManager                                             *)

\* C29: from a keyword list without duplicates, after any add_keyword,
\* remove_keyword, update_keyword and import_keywords calls no two entries of
\* the list are equal ignoring case, and every entry has two characters or
\* more.
C29_NoDuplicatesIgnoringCase ==
    /\ \A m, n \in 1..Len(keywords) :
           m < n => Lower(keywords[m]) # Lower(keywords[n])
    /\ \A n \in 1..Len(keywords) : ~TooShort(keywords[n])

\* the last call was remove_keyword and returned True
RemovedLast ==
    /\ kw_call # NoResult
    /\ kw_call[1].op = "remove_keyword"
    /\ kw_result[1] = TRUE

\* C30: after remove_keyword(k) returned True, k is neither in the keyword
\* list nor in any category; and after any add_keyword and remove_keyword
\* calls from the default configuration every keyword of a category is in
\* the list.
C30_RemovedEverywhere ==
    /\ RemovedLast =>
           /\ ~ExistsIgnoringCase(keywords, kw_call[1].keyword)
           /\ \A c \in DOMAIN keyword_categories :
                  ~ExistsIgnoringCase(keyword_categories[c], kw_call[1].keyword)
    /\ \A c \in DOMAIN keyword_categories :
           \A n \in 1..Len(keyword_categories[c]) :
               IndexOf(keywords, keyword_categories[c][n]) # 0

====
